---- MODULE Spec2Model ----
(***************************************************************************)
(* A model of infinite-craft-bot: the batch path solver                    *)
(* (element_paths/compute_paths.py) and the crawl loops                    *)
(* (crawler/common.py, crawler/probibalistic.py).                          *)
(***************************************************************************)
EXTENDS Integers, Sequences, FiniteSets, TLC

VARIABLES
    \* ---- batch solver (compute_elements_paths) ----
    recipes,            \* the OrderedDict argument: a sequence of [ingredients, result]
    recipes_as_tuples,  \* the list of (first, second, result) built once per run
    elements_paths,     \* dict element -> ElementPath(ancestors, path)
    iteration,          \* the pass counter i of `for i in count()`
    pc,                 \* "input" | "pass" | "done" | "KeyError"
    prev_paths,         \* history: the path sets the previous run returned
    prev_ancestors,     \* history: the ancestors a previous run on the same recipes returned
    prev_kind,          \* "none" | "same" | "appended": how recipes relate to the previous run
    appended,           \* number of recipes appended since Init
    \* ---- the repository (persistence) ----
    repo_elements,      \* the stored elements, in append order
    repo_recipes,       \* the stored recipes, in append order
    \* ---- a crawler object ----
    crawler,            \* the class constructed, "none" if none is
    self_recipes,       \* self.recipes: the set of ingredient pairs already crafted
    elements_set,       \* Crawler.elements_set
    elements_list,      \* Crawler.elements_list
    elements_to_path,   \* ProbibalisticCrawler.elements_to_path
    sorted_elements,    \* ProbibalisticCrawler.sorted_elements
    \* ---- what the subclasses of Crawler add ----
    recipes_true,       \* ExhaustiveCrawler.recipes: the keys whose value is True
    next_craft_combination,      \* ExhaustiveCrawler.next_craft_combination
    next_craft_combination_txt,  \* exhaustive/next_craft_combination.txt, None if absent
    elements_to_target_similarity,  \* TargetedCrawler.elements_to_target_similarity
    \* ---- the threads running crawl(), one entry per thread ----
    at,                 \* where the thread is in the loop body
    first,
    second,
    result_element,     \* the text of the crafted Element, or NoElement
    tries,
    new_element_path,
    old_length,
    started,            \* number of loop iterations started so far
    \* ---- FileRepository objects (persistence) ----
    repository,         \* the class of the repository whose load_recipes is called
    load_result,        \* what load_recipes did: not called, DataError, or the mapping
    lock_holder,        \* the process holding the lock on data_dir/.lock, NoHolder if free
    proc_at,            \* per process: where it is between start and crawling
    lock_acquired,      \* per process: self.lock.acquired of its repository
    data_loaded,        \* per process: whether its crawler's init_data has run
    \* ---- a FullRecipeQuery object ----
    element_ancestors,  \* self.element_ancestors, NoQuery before construction
    query_result,       \* the last call of query_full_recipe: its argument and outcome
    \* ---- the threading.Lock objects of a crawler and the threads using them ----
    owner,              \* per lock: the thread that has acquired it, NoThread if none has
    running             \* per thread: the operation it is in and its current statement

solver_vars == <<recipes, recipes_as_tuples, elements_paths, iteration, pc,
                 prev_paths, prev_ancestors, prev_kind, appended>>

repo_vars == <<repo_elements, repo_recipes>>

crawler_vars == <<crawler, self_recipes, elements_set, elements_list, elements_to_path,
                  sorted_elements>>

thread_vars == <<at, first, second, result_element, tries, new_element_path, old_length>>

strategy_vars == <<recipes_true, next_craft_combination, next_craft_combination_txt,
                   elements_to_target_similarity>>

persistence_vars == <<repository, load_result, lock_holder, proc_at, lock_acquired,
                      data_loaded>>

query_vars == <<element_ancestors, query_result>>

mutex_vars == <<owner, running>>

vars == <<solver_vars, repo_vars, crawler_vars, strategy_vars, thread_vars, started,
          persistence_vars, query_vars, mutex_vars>>

----------------------------------------------------------------------------
\* Names.

Roots == {"Water", "Fire", "Wind", "Earth"}

NonRoots == {"Steam", "Mud", "Plant", "Life", "Dust"}

Nothing == "Nothing"

\* ElementPath.ancestors of a root element
None == <<>>

\* a dict with no keys
EmptyDict == [e \in {} |-> None]

\* How many recipes the driver appends to a loaded recipe list.
MaxAppend == 1

\* One process's string hashing: frozenset iteration order follows the hash slots,
\* which differ from process to process (hash randomisation).  Two orders are kept.
HashSeeds == {0, 1}

Slot == [e \in Roots \cup NonRoots \cup {Nothing} |->
            CASE e = "Water" -> 1 [] e = "Fire" -> 2 [] e = "Wind" -> 3 [] e = "Earth" -> 4
              [] e = "Steam" -> 5 [] e = "Mud" -> 6 [] e = "Plant" -> 7 [] e = "Life" -> 8
              [] e = "Dust" -> 9 [] OTHER -> 10]

Recipe(a, b, r) == [ingredients |-> {a, b}, result |-> r]

\* Recipe lists as load_recipes returns them (insertion order, one entry per pair).
ExampleRecipes ==
    << Recipe("Water", "Fire", "Steam"), Recipe("Steam", "Earth", "Mud"),
       Recipe("Water", "Earth", "Plant"), Recipe("Plant", "Mud", "Life") >>

ChainRecipes ==
    << Recipe("Water", "Fire", "Steam"), Recipe("Steam", "Steam", "Mud"),
       Recipe("Mud", "Mud", "Life"), Recipe("Life", "Mud", "Dust"),
       Recipe("Earth", "Earth", "Plant") >>

ShortcutRecipes ==
    << Recipe("Water", "Fire", "Steam"), Recipe("Steam", "Steam", "Mud"),
       Recipe("Earth", "Earth", "Plant"), Recipe("Mud", "Plant", "Life"),
       Recipe("Life", "Mud", "Dust"), Recipe("Mud", "Mud", "Life") >>

OutOfOrderRecipes ==
    << Recipe("Steam", "Earth", "Mud"), Recipe("Water", "Fire", "Steam") >>

SeedRecipes == {<< >>, ExampleRecipes, ChainRecipes, ShortcutRecipes, OutOfOrderRecipes}

\* The recipes the driver appends: any pair over AppendIngredients, any result of
\* AppendResults (a new or known element, a root, or the sentinel).
AppendIngredients == NonRoots \cup {"Water"}

AppendResults == {"Mud", "Life", "Dust", "Water", Nothing}

Pairs == {{a, b} : a \in AppendIngredients, b \in AppendIngredients}

----------------------------------------------------------------------------
\* compute_elements_paths

\* `first, second = ingredients` / `(first,) = (second,) = ingredients`
Unpack(ingredients, seed) ==
    LET lo == CHOOSE x \in ingredients : \A y \in ingredients : Slot[x] <= Slot[y]
        hi == CHOOSE x \in ingredients : \A y \in ingredients : Slot[x] >= Slot[y]
    IN  IF seed = 0 THEN <<lo, hi>> ELSE <<hi, lo>>

AsTuples(rs, seed) ==
    [k \in 1..Len(rs) |->
        LET fs == Unpack(rs[k].ingredients, seed)
        IN  <<fs[1], fs[2], rs[k].result>>]

\* a faulty variant: every root counts itself in its path
InitialPathsWithRoots == [e \in Roots |-> [ancestors |-> None, path |-> {e}]]

\* line 24: `ElementPath(None, set())` for each root
InitialPaths == [e \in Roots |-> [ancestors |-> None, path |-> {}]]

\* a faulty variant: the path of the second ingredient is left out
NewPathOfFirst(ep, fst, snd, res) ==
    ep[fst].path \cup {res}

\* line 42: the union of both ingredients' paths and the result itself
NewPath(ep, fst, snd, res) ==
    ep[fst].path \cup ep[snd].path \cup {res}

Put(ep, key, val) ==
    [e \in DOMAIN ep \cup {key} |-> IF e = key THEN val ELSE ep[e]]

\* a faulty variant: a path is replaced only when the new one is two or more shorter
FasterByTwo(new_path, old_path) == Cardinality(new_path) + 1 < Cardinality(old_path)

\* a faulty variant: a path is replaced when the new one is longer
Slower(new_path, old_path) == Cardinality(new_path) > Cardinality(old_path)

\* the `<` of `len(new_path) < len(elements_paths[result].path)`
Faster(new_path, old_path) == Cardinality(new_path) < Cardinality(old_path)

\* a faulty variant: a root is taken for an element met for the first time
KnownNonRoot(ep, res) == res \in DOMAIN ep /\ res \notin Roots

\* the test that decides whether `result` is compared or inserted
Known(ep, res) == res \in DOMAIN ep

\* One turn of the inner for loop.  st = [ep, modified, failed].
ApplyRecipe(st, t) ==
    LET fst == t[1]
        snd == t[2]
        res == t[3]
    IN  IF st.failed THEN st
        ELSE IF fst \notin DOMAIN st.ep \/ snd \notin DOMAIN st.ep
             THEN [st EXCEPT !.failed = TRUE]
        ELSE LET new_path == NewPath(st.ep, fst, snd, res)
                 new == [ancestors |-> <<fst, snd>>, path |-> new_path]
             IN  IF Known(st.ep, res)
                 THEN IF Faster(new_path, st.ep[res].path)
                      THEN [st EXCEPT !.ep = Put(st.ep, res, new), !.modified = TRUE]
                      ELSE st
                 ELSE [st EXCEPT !.ep = Put(st.ep, res, new), !.modified = TRUE]

\* lines 41-52: the inner for loop from recipe k on.  Each turn binds the state it
\* starts from (s \in {st}), so that the state is evaluated once per turn.
RECURSIVE RunPass(_, _, _)
RunPass(st, tuples, k) ==
    IF k > Len(tuples) THEN st
    ELSE CHOOSE out \in {RunPass(ApplyRecipe(s, tuples[k]), tuples, k + 1) : s \in {st}} : TRUE

\* lines 24-35: the function is entered
Start ==
    /\ pc = "input"
    /\ \E seed \in HashSeeds : recipes_as_tuples' = AsTuples(recipes, seed)
    /\ elements_paths' = InitialPaths
    /\ iteration' = 0
    /\ pc' = "pass"
    /\ UNCHANGED <<recipes, prev_paths, prev_ancestors, prev_kind, appended>>
    /\ UNCHANGED <<repo_vars, crawler_vars, thread_vars, started>>
    /\ UNCHANGED strategy_vars
    /\ UNCHANGED <<persistence_vars, query_vars, mutex_vars>>

\* lines 37-58: one full pass over the recipes
Pass ==
    /\ pc = "pass"
    /\ LET out == RunPass([ep |-> elements_paths, modified |-> FALSE, failed |-> FALSE],
                          recipes_as_tuples, 1)
       IN  /\ elements_paths' = out.ep
           /\ pc' = IF out.failed THEN "KeyError"
                    ELSE IF out.modified THEN "pass" ELSE "done"
    /\ iteration' = iteration + 1
    /\ UNCHANGED <<recipes, recipes_as_tuples, prev_paths, prev_ancestors, prev_kind, appended>>
    /\ UNCHANGED <<repo_vars, crawler_vars, thread_vars, started>>
    /\ UNCHANGED strategy_vars
    /\ UNCHANGED <<persistence_vars, query_vars, mutex_vars>>

PathsOf(ep) == [e \in DOMAIN ep |-> ep[e].path]

AncestorsOf(ep) == [e \in DOMAIN ep |-> ep[e].ancestors]

UsedPairs(rs) == {rs[k].ingredients : k \in 1..Len(rs)}

\* A crawler appends one recipe to the repository and the paths are computed again.
AppendRecipe ==
    /\ pc = "done"
    /\ prev_kind # "same"
    /\ appended < MaxAppend
    /\ \E p \in Pairs \ UsedPairs(recipes), r \in AppendResults :
          recipes' = Append(recipes, [ingredients |-> p, result |-> r])
    /\ prev_paths' = PathsOf(elements_paths)
    /\ prev_ancestors' = EmptyDict
    /\ prev_kind' = "appended"
    /\ appended' = appended + 1
    /\ elements_paths' = EmptyDict
    /\ recipes_as_tuples' = << >>
    /\ iteration' = 0
    /\ pc' = "input"
    /\ UNCHANGED <<repo_vars, crawler_vars, thread_vars, started>>
    /\ UNCHANGED strategy_vars
    /\ UNCHANGED <<persistence_vars, query_vars, mutex_vars>>

\* The paths are computed a second time from the same recipes.
Rerun ==
    /\ pc = "done"
    /\ prev_kind # "same"
    /\ prev_paths' = PathsOf(elements_paths)
    /\ prev_ancestors' = AncestorsOf(elements_paths)
    /\ prev_kind' = "same"
    /\ elements_paths' = EmptyDict
    /\ recipes_as_tuples' = << >>
    /\ iteration' = 0
    /\ pc' = "input"
    /\ UNCHANGED <<recipes, appended>>
    /\ UNCHANGED <<repo_vars, crawler_vars, thread_vars, started>>
    /\ UNCHANGED strategy_vars
    /\ UNCHANGED <<persistence_vars, query_vars, mutex_vars>>

\* no process holds the lock on data_dir/.lock
NoHolder == "nobody"

\* load_recipes has not been called
NotCalled == [kind |-> "not called"]

\* no FullRecipeQuery is constructed, no query made
NoQuery == [kind |-> "no query"]

\* no repository is loaded from, no process competes for write access, no recipe is
\* queried, no lock is followed
NoRepositoryUse ==
    /\ owner = EmptyDict
    /\ running = EmptyDict
    /\ repository = "none"
    /\ load_result = NotCalled
    /\ lock_holder = NoHolder
    /\ proc_at = EmptyDict
    /\ lock_acquired = EmptyDict
    /\ data_loaded = EmptyDict
    /\ element_ancestors = NoQuery
    /\ query_result = NoQuery

\* no crawler is constructed while the paths are computed
NoCrawler ==
    /\ NoRepositoryUse
    /\ repo_elements = << >>
    /\ repo_recipes = << >>
    /\ crawler = "none"
    /\ self_recipes = {}
    /\ elements_set = {}
    /\ elements_list = << >>
    /\ elements_to_path = EmptyDict
    /\ sorted_elements = << >>
    /\ recipes_true = {}
    /\ next_craft_combination = <<0, 0>>
    /\ next_craft_combination_txt = None
    /\ elements_to_target_similarity = EmptyDict
    /\ at = EmptyDict
    /\ first = EmptyDict
    /\ second = EmptyDict
    /\ result_element = EmptyDict
    /\ tries = EmptyDict
    /\ new_element_path = EmptyDict
    /\ old_length = EmptyDict
    /\ started = 0

Init ==
    /\ NoCrawler
    /\ recipes \in SeedRecipes
    /\ recipes_as_tuples = << >>
    /\ elements_paths = EmptyDict
    /\ iteration = 0
    /\ pc = "input"
    /\ prev_paths = EmptyDict
    /\ prev_ancestors = EmptyDict
    /\ prev_kind = "none"
    /\ appended = 0

Next == Start \/ Pass \/ AppendRecipe \/ Rerun

Spec == Init /\ [][Next]_vars

\* the specification under which the pass loop is scheduled: a started run keeps
\* executing passes until it breaks out of the loop or raises
FairSpec == Spec /\ WF_vars(Start) /\ WF_vars(Pass)

----------------------------------------------------------------------------
\* Properties of compute_elements_paths

Depth(ep, e) == Cardinality(ep[e].path)

RECURSIVE ProducibleFrom(_, _, _)
ProducibleFrom(have, rs, n) ==
    IF n = 0 THEN have
    ELSE ProducibleFrom(
             have \cup {rs[k].result : k \in {j \in 1..Len(rs) : rs[j].ingredients \subseteq have}},
             rs, n - 1)

\* the elements that can be made from the roots with the recipes rs, in any order
Producible(rs) == ProducibleFrom(Roots, rs, Len(rs))

AllIngredientsProducible(rs) == \A k \in 1..Len(rs) : rs[k].ingredients \subseteq Producible(rs)

\* every ingredient is a root or the result of an earlier recipe
WellOrdered(rs) ==
    \A k \in 1..Len(rs) :
        rs[k].ingredients \subseteq Roots \cup {rs[j].result : j \in 1..(k - 1)}

\* C1: after convergence on a well-ordered recipe list, every element with recorded
\* ancestors (a, b) has path(e) = path(a) \cup path(b) \cup {e}, with the final paths.
C1_PathIsUnionOfAncestorPaths ==
    (pc = "done" /\ WellOrdered(recipes)) =>
        \A e \in DOMAIN elements_paths :
            elements_paths[e].ancestors # None =>
                elements_paths[e].path =
                    NewPath(elements_paths, elements_paths[e].ancestors[1],
                            elements_paths[e].ancestors[2], e)

\* C2: appending one recipe to the list and computing again never gives an element a
\* path of larger cardinality than it had before.
C2_AppendNeverIncreasesDepth ==
    (pc = "done" /\ prev_kind = "appended") =>
        \A e \in DOMAIN prev_paths :
            /\ e \in DOMAIN elements_paths
            /\ Depth(elements_paths, e) <= Cardinality(prev_paths[e])

\* C3: after convergence no recipe of the input, evaluated with the final paths, gives
\* its result a strictly smaller path than the stored one.
C3_NoRecipeGivesSmallerPath ==
    pc = "done" =>
        \A k \in 1..Len(recipes_as_tuples) :
            LET t == recipes_as_tuples[k]
            IN  /\ t[3] \in DOMAIN elements_paths
                /\ Depth(elements_paths, t[3]) <=
                       Cardinality(NewPath(elements_paths, t[1], t[2], t[3]))

\* a converged run in which an element has two recipes and was improved in a later pass
C3_Witness ==
    /\ pc = "done"
    /\ iteration >= 3
    /\ \E k, l \in 1..Len(recipes) :
          k # l /\ recipes[k].result = recipes[l].result /\ recipes[k].result \in NonRoots

\* C4 as stated: the example's paths contain the root elements (depths 3, 5, 3, 7).
C4_ExamplePathsHoldRoots ==
    (pc = "done" /\ recipes = ExampleRecipes) =>
        /\ elements_paths["Steam"].path = {"Water", "Fire", "Steam"}
        /\ elements_paths["Mud"].path = {"Water", "Fire", "Earth", "Steam", "Mud"}
        /\ elements_paths["Plant"].path = {"Water", "Earth", "Plant"}
        /\ Depth(elements_paths, "Life") = 7

\* C4 (amended): on the example the paths hold no root element: path(Steam) = {Steam}
\* (depth 1), path(Mud) = {Steam, Mud} (depth 2), path(Plant) = {Plant} (depth 1) and
\* path(Life) = {Steam, Mud, Plant, Life} (depth 4).
C4_ExamplePaths ==
    (pc = "done" /\ recipes = ExampleRecipes) =>
        /\ elements_paths["Steam"].path = {"Steam"}
        /\ elements_paths["Mud"].path = {"Steam", "Mud"}
        /\ elements_paths["Plant"].path = {"Plant"}
        /\ elements_paths["Life"].path = {"Steam", "Mud", "Plant", "Life"}
        /\ Depth(elements_paths, "Life") = 4

C4_Witness == pc = "done" /\ recipes = ExampleRecipes /\ "Life" \in DOMAIN elements_paths

\* C5: a recipe whose ingredient has no path yet is skipped without failure, and the
\* solver returns a path for every element producible from the roots.
C5_MissingIngredientIsSkipped ==
    AllIngredientsProducible(recipes) =>
        /\ pc # "KeyError"
        /\ pc = "done" => Producible(recipes) \subseteq DOMAIN elements_paths

\* C6: on a recipe list whose ingredients are all producible, a started run reaches a
\* pass that makes no modification.
C6_ReachesUnmodifiedPass ==
    (pc = "pass" /\ AllIngredientsProducible(recipes)) ~> (pc = "done")

\* C7 as stated: a second run on the same recipes returns the same ancestors pairs and
\* the same path sets.
C7_RerunIdentical ==
    (pc = "done" /\ prev_kind = "same") =>
        /\ PathsOf(elements_paths) = prev_paths
        /\ AncestorsOf(elements_paths) = prev_ancestors

Unordered(ancestors) == {ancestors[k] : k \in 1..Len(ancestors)}

\* C7 (amended): a second run on the same recipes returns the same path sets and the
\* same two ancestors for every element, the order within the ancestors pair aside.
C7_RerunSameUpToAncestorOrder ==
    (pc = "done" /\ prev_kind = "same") =>
        /\ PathsOf(elements_paths) = prev_paths
        /\ DOMAIN prev_ancestors = DOMAIN elements_paths
        /\ \A e \in DOMAIN elements_paths :
              Unordered(elements_paths[e].ancestors) = Unordered(prev_ancestors[e])

\* a second run has returned and some element's ancestors pair came out in the other order
C7_Witness ==
    /\ pc = "done"
    /\ prev_kind = "same"
    /\ \E e \in DOMAIN elements_paths :
          e \in DOMAIN prev_ancestors /\ elements_paths[e].ancestors # prev_ancestors[e]

\* C8: the four root elements keep ancestors None and an empty path, also when a
\* recipe has a root element as its result.
C8_RootsKeepEmptyPath ==
    pc \in {"pass", "done"} =>
        \A r \in Roots : elements_paths[r] = [ancestors |-> None, path |-> {}]

\* a run has returned on a recipe list holding a recipe whose result is a root
C8_Witness ==
    /\ pc = "done"
    /\ \E k \in 1..Len(recipes) :
          recipes[k].result \in Roots /\ recipes[k].ingredients \subseteq DOMAIN elements_paths

\* C9: the mapping never holds an entry for the sentinel "Nothing".
C9_NothingIsNoElement == Nothing \notin DOMAIN elements_paths

----------------------------------------------------------------------------
\* The crawl loops: Crawler.crawl (crawler/common.py) and
\* ProbibalisticCrawler.crawl (crawler/probibalistic.py).
\* A `with lock:` block is one step of the thread that runs it.

\* the threads started by crawl_multithreaded (num_threads >= 2)
Threads == {"t1", "t2"}

\* How many iterations of the loop body the threads start during a run.
MaxCrafts == 2

\* result_element before a request has returned
NoElement == "None"

\* the texts the game answers with
CraftTexts == {"Mud", Nothing}

\* Data directories a crawler is constructed on: the stored elements, the stored
\* recipes and the stored paths.
FreshData ==
    [elements |-> {"Water", "Fire"},
     recipes |-> << >>,
     paths |-> [e \in {"Water", "Fire"} |-> {}]]

PopulatedData ==
    [elements |-> {"Water", "Fire", "Steam", "Mud"},
     recipes |-> << Recipe("Water", "Fire", "Steam"), Recipe("Steam", "Steam", "Mud"),
                    Recipe("Water", "Steam", Nothing), Recipe("Fire", "Steam", Nothing),
                    Recipe("Fire", "Fire", Nothing), Recipe("Steam", "Mud", Nothing),
                    Recipe("Water", "Mud", Nothing) >>,
     paths |-> [e \in {"Water", "Fire", "Steam", "Mud"} |->
                   CASE e = "Steam" -> {"Steam"}
                     [] e = "Mud" -> {"Steam", "Mud"}
                     [] OTHER -> {}]]

DataDirs == {FreshData, PopulatedData}

Range(seq) == {seq[k] : k \in 1..Len(seq)}

\* iterating a set: the order follows the hash slots of the process
RECURSIVE Iterate(_, _)
Iterate(S, seed) ==
    IF S = {} THEN << >>
    ELSE LET x == CHOOSE y \in S : \A z \in S :
                      IF seed = 0 THEN Slot[y] <= Slot[z] ELSE Slot[y] >= Slot[z]
         IN  <<x>> \o Iterate(S \ {x}, seed)

\* the sort key len(self.elements_to_path[el])
DepthKey(etp, el) == Cardinality(etp[el])

\* list.sort(key=...): a stable sort
RECURSIVE SortByDepth(_, _)
SortByDepth(seq, etp) ==
    IF seq = << >> THEN << >>
    ELSE LET n == Len(seq)
             x == seq[n]
             init == SortByDepth(SubSeq(seq, 1, n - 1), etp)
             pos == Cardinality({k \in 1..(n - 1) : DepthKey(etp, init[k]) <= DepthKey(etp, x)})
         IN  SubSeq(init, 1, pos) \o <<x>> \o SubSeq(init, pos + 1, n - 1)

\* bisect.bisect_right(a, key(x), key=...) with 0-based lo and hi
RECURSIVE BisectRight(_, _, _, _, _)
BisectRight(a, kx, lo, hi, etp) ==
    IF lo >= hi THEN lo
    ELSE LET mid == (lo + hi) \div 2
         IN  IF kx < DepthKey(etp, a[mid + 1])
             THEN BisectRight(a, kx, lo, mid, etp)
             ELSE BisectRight(a, kx, mid + 1, hi, etp)

\* bisect.insort(a, x, key=...)
Insort(a, x, etp) ==
    LET pos == BisectRight(a, DepthKey(etp, x), 0, Len(a), etp)
    IN  SubSeq(a, 1, pos) \o <<x>> \o SubSeq(a, pos + 1, Len(a))

\* sample_elements.fully_random: the pairs it can return
fully_random(elements, known) ==
    {p \in Range(elements) \X Range(elements) : {p[1], p[2]} \notin known}

\* sample_elements.skewed_towards_low_depth: the pairs it can return (every index pair
\* in range is drawn, and kept, with a probability above zero)
skewed_towards_low_depth(elements_sorted_ascending_by_depth, etp, known) ==
    {p \in Range(elements_sorted_ascending_by_depth) \X Range(elements_sorted_ascending_by_depth) :
        /\ {p[1], p[2]} \notin known
        /\ p[1] \in DOMAIN etp
        /\ p[2] \in DOMAIN etp}

\* a faulty variant: the sentinel is compared in lower case
IsLowercaseNothing(text) == text = "nothing"

\* the test `result_element.text == "Nothing"`
IsNothing(text) == text = Nothing

CanStart == started < MaxCrafts

\* Crawler.__init__ / ProbibalisticCrawler.__init__ on a data directory
CrawlInit ==
    /\ NoRepositoryUse
    /\ recipes = << >>
    /\ recipes_as_tuples = << >>
    /\ elements_paths = EmptyDict
    /\ iteration = 0
    /\ pc = "input"
    /\ prev_paths = EmptyDict
    /\ prev_ancestors = EmptyDict
    /\ prev_kind = "none"
    /\ appended = 0
    /\ \E data \in DataDirs, seed \in HashSeeds :
          /\ repo_elements = Iterate(data.elements, 0)
          /\ repo_recipes = data.recipes
          /\ self_recipes = UsedPairs(data.recipes)
          /\ \/ /\ crawler = "Crawler"
                /\ data = FreshData
                /\ elements_list = Iterate(data.elements, seed)
                /\ elements_set = data.elements
                /\ elements_to_path = EmptyDict
                /\ sorted_elements = << >>
             \/ /\ crawler = "ProbibalisticCrawler"
                /\ elements_to_path = data.paths
                /\ sorted_elements = SortByDepth(Iterate(data.elements, seed), data.paths)
                /\ elements_list = << >>
                /\ elements_set = {}
    /\ recipes_true = {}
    /\ next_craft_combination = <<0, 0>>
    /\ next_craft_combination_txt = None
    /\ elements_to_target_similarity = EmptyDict
    /\ at = [t \in Threads |-> "sample"]
    /\ first = [t \in Threads |-> NoElement]
    /\ second = [t \in Threads |-> NoElement]
    /\ result_element = [t \in Threads |-> NoElement]
    /\ tries = [t \in Threads |-> 0]
    /\ new_element_path = [t \in Threads |-> {}]
    /\ old_length = [t \in Threads |-> 0]
    /\ started = 0

Goto(t, label) == at' = [at EXCEPT ![t] = label]

\* `continue` / the end of the loop body: the locals of the iteration are dead until
\* the next iteration assigns them
BackToSampling(t) ==
    /\ at' = [at EXCEPT ![t] = "sample"]
    /\ first' = [first EXCEPT ![t] = NoElement]
    /\ second' = [second EXCEPT ![t] = NoElement]
    /\ result_element' = [result_element EXCEPT ![t] = NoElement]
    /\ tries' = [tries EXCEPT ![t] = 0]
    /\ new_element_path' = [new_element_path EXCEPT ![t] = {}]
    /\ old_length' = [old_length EXCEPT ![t] = 0]

\* ---- Crawler.crawl ----

\* the classes whose threads run Crawler.crawl: the base class and its subclasses
\* (exhaustive_by_depth.py 15, targeted.py 39)
RunsCrawlerCrawl == {"Crawler", "ExhaustiveCrawler", "TargetedCrawler"}

\* the classes that do not override process_recipe
InheritsProcessRecipe == {"Crawler", "TargetedCrawler"}

\* common.py 82-86: sample_elements is abstract; any two known elements
SampleElements(t) ==
    /\ crawler = "Crawler"
    /\ at[t] = "sample"
    /\ CanStart
    /\ \E a \in Range(elements_list), b \in Range(elements_list) :
          /\ first' = [first EXCEPT ![t] = a]
          /\ second' = [second EXCEPT ![t] = b]
    /\ tries' = [tries EXCEPT ![t] = 0]
    /\ result_element' = [result_element EXCEPT ![t] = NoElement]
    /\ Goto(t, "request")
    /\ started' = started + 1
    /\ UNCHANGED <<solver_vars, repo_vars, crawler_vars, new_element_path, old_length>>
    /\ UNCHANGED strategy_vars
    /\ UNCHANGED <<persistence_vars, query_vars, mutex_vars>>

\* common.py 87-89: craft_items returns an Element
CraftItems(t) ==
    /\ crawler \in RunsCrawlerCrawl
    /\ at[t] = "request"
    /\ \E text \in CraftTexts : result_element' = [result_element EXCEPT ![t] = text]
    /\ Goto(t, "process_recipe")
    /\ UNCHANGED <<solver_vars, started, repo_vars, crawler_vars, first, second, tries, new_element_path, old_length>>
    /\ UNCHANGED strategy_vars
    /\ UNCHANGED <<persistence_vars, query_vars, mutex_vars>>

\* common.py 88-89: craft_items returns None (api.py 52-63), result_element stays None
CraftItemsNone(t) ==
    /\ crawler \in RunsCrawlerCrawl
    /\ at[t] = "request"
    /\ Goto(t, "no_result")
    /\ UNCHANGED <<solver_vars, started, repo_vars, crawler_vars, first, second, result_element, tries,
                   new_element_path, old_length>>
    /\ UNCHANGED strategy_vars
    /\ UNCHANGED <<persistence_vars, query_vars, mutex_vars>>

\* common.py 87: `while result_element is None` is true, craft_items is called again
\* with the same first and second
RequestAgain(t) ==
    /\ crawler \in RunsCrawlerCrawl
    /\ at[t] = "no_result"
    /\ Goto(t, "request")
    /\ UNCHANGED <<solver_vars, started, repo_vars, crawler_vars, first, second, result_element, tries,
                   new_element_path, old_length>>
    /\ UNCHANGED strategy_vars
    /\ UNCHANGED <<persistence_vars, query_vars, mutex_vars>>

\* common.py 90-97: craft_items raises ServerError
CraftItemsServerError(t) ==
    /\ crawler \in RunsCrawlerCrawl
    /\ at[t] = "request"
    /\ IF tries[t] + 1 > 3
       THEN BackToSampling(t)
       ELSE /\ tries' = [tries EXCEPT ![t] = tries[t] + 1]
            /\ UNCHANGED <<at, first, second, result_element, new_element_path, old_length>>
    /\ UNCHANGED <<solver_vars, started, repo_vars, crawler_vars>>
    /\ UNCHANGED strategy_vars
    /\ UNCHANGED <<persistence_vars, query_vars, mutex_vars>>

\* common.py 136-137: process_recipe, self.recipes.add
ProcessRecipe(t) ==
    /\ crawler \in InheritsProcessRecipe
    /\ at[t] = "process_recipe"
    /\ self_recipes' = self_recipes \cup {{first[t], second[t]}}
    /\ Goto(t, "add_recipe")
    /\ UNCHANGED <<solver_vars, started, repo_vars, crawler, elements_set, elements_list, elements_to_path,
                   sorted_elements, first, second, result_element, tries, new_element_path,
                   old_length>>
    /\ UNCHANGED strategy_vars
    /\ UNCHANGED <<persistence_vars, query_vars, mutex_vars>>

\* a faulty variant: the recipe is written in front of the stored recipes
AddRecipeAtFront(t) ==
    /\ crawler \in RunsCrawlerCrawl
    /\ at[t] = "add_recipe"
    /\ repo_recipes' = <<[ingredients |-> {first[t], second[t]}, result |-> result_element[t]]>>
                           \o repo_recipes
    /\ Goto(t, "classify")
    /\ UNCHANGED <<solver_vars, started, repo_elements, crawler_vars, first, second, result_element, tries,
                   new_element_path, old_length>>
    /\ UNCHANGED strategy_vars
    /\ UNCHANGED <<persistence_vars, query_vars, mutex_vars>>

\* common.py 139-140: process_recipe, repository.add_recipe
AddRecipe(t) ==
    /\ crawler \in RunsCrawlerCrawl
    /\ at[t] = "add_recipe"
    /\ repo_recipes' = Append(repo_recipes,
                              [ingredients |-> {first[t], second[t]}, result |-> result_element[t]])
    /\ Goto(t, "classify")
    /\ UNCHANGED <<solver_vars, started, repo_elements, crawler_vars, first, second, result_element, tries,
                   new_element_path, old_length>>
    /\ UNCHANGED strategy_vars
    /\ UNCHANGED <<persistence_vars, query_vars, mutex_vars>>

\* common.py 108-110: process_nothing_result, continue
ProcessNothingResult(t) ==
    /\ crawler \in RunsCrawlerCrawl
    /\ at[t] = "classify"
    /\ IsNothing(result_element[t])
    /\ BackToSampling(t)
    /\ UNCHANGED <<solver_vars, started, repo_vars, crawler_vars>>
    /\ UNCHANGED strategy_vars
    /\ UNCHANGED <<persistence_vars, query_vars, mutex_vars>>

\* common.py 112-114 and 145-150: element_already_known, process_known_element, continue
ProcessKnownElement(t) ==
    /\ crawler = "Crawler"
    /\ at[t] = "classify"
    /\ ~IsNothing(result_element[t])
    /\ result_element[t] \in elements_set
    /\ BackToSampling(t)
    /\ UNCHANGED <<solver_vars, started, repo_vars, crawler_vars>>
    /\ UNCHANGED strategy_vars
    /\ UNCHANGED <<persistence_vars, query_vars, mutex_vars>>

\* common.py 112-116: element_already_known is false
ElementNotKnown(t) ==
    /\ crawler = "Crawler"
    /\ at[t] = "classify"
    /\ ~IsNothing(result_element[t])
    /\ result_element[t] \notin elements_set
    /\ Goto(t, "new_set")
    /\ UNCHANGED <<solver_vars, started, repo_vars, crawler_vars, first, second, result_element, tries,
                   new_element_path, old_length>>
    /\ UNCHANGED strategy_vars
    /\ UNCHANGED <<persistence_vars, query_vars, mutex_vars>>

\* common.py 153-154: process_new_element, elements_set.add
NewElementSet(t) ==
    /\ crawler = "Crawler"
    /\ at[t] = "new_set"
    /\ elements_set' = elements_set \cup {result_element[t]}
    /\ Goto(t, "new_list")
    /\ UNCHANGED <<solver_vars, started, repo_vars, crawler, self_recipes, elements_list, elements_to_path,
                   sorted_elements, first, second, result_element, tries, new_element_path,
                   old_length>>
    /\ UNCHANGED strategy_vars
    /\ UNCHANGED <<persistence_vars, query_vars, mutex_vars>>

\* common.py 155-156: process_new_element, elements_list.append
NewElementList(t) ==
    /\ crawler = "Crawler"
    /\ at[t] = "new_list"
    /\ elements_list' = Append(elements_list, result_element[t])
    /\ Goto(t, "new_repo")
    /\ UNCHANGED <<solver_vars, started, repo_vars, crawler, self_recipes, elements_set, elements_to_path,
                   sorted_elements, first, second, result_element, tries, new_element_path,
                   old_length>>
    /\ UNCHANGED strategy_vars
    /\ UNCHANGED <<persistence_vars, query_vars, mutex_vars>>

\* common.py 158-159 and 118-119: repository.add_element; exit_condition is False
NewElementRepository(t) ==
    /\ crawler = "Crawler"
    /\ at[t] = "new_repo"
    /\ repo_elements' = Append(repo_elements, result_element[t])
    /\ BackToSampling(t)
    /\ UNCHANGED <<solver_vars, started, repo_recipes, crawler_vars>>
    /\ UNCHANGED strategy_vars
    /\ UNCHANGED <<persistence_vars, query_vars, mutex_vars>>

CrawlerCrawl(t) ==
    \/ SampleElements(t)
    \/ CraftItems(t)
    \/ CraftItemsNone(t)
    \/ RequestAgain(t)
    \/ CraftItemsServerError(t)
    \/ ProcessRecipe(t)
    \/ AddRecipe(t)
    \/ ProcessNothingResult(t)
    \/ ProcessKnownElement(t)
    \/ ElementNotKnown(t)
    \/ NewElementSet(t)
    \/ NewElementList(t)
    \/ NewElementRepository(t)

\* ---- ProbibalisticCrawler.crawl ----

\* the pairs self.sampling_function() can return (LOW_DEPTH or RANDOM)
sampling_function(strategy) ==
    IF strategy = "LOW_DEPTH"
    THEN skewed_towards_low_depth(sorted_elements, elements_to_path, self_recipes)
    ELSE fully_random(sorted_elements, self_recipes)

\* probibalistic.py 119-120
Sampling(t) ==
    /\ crawler = "ProbibalisticCrawler"
    /\ at[t] = "sample"
    /\ CanStart
    /\ \E strategy \in {"LOW_DEPTH", "RANDOM"} :
          \E p \in sampling_function(strategy) :
              /\ first' = [first EXCEPT ![t] = p[1]]
              /\ second' = [second EXCEPT ![t] = p[2]]
    /\ result_element' = [result_element EXCEPT ![t] = NoElement]
    /\ Goto(t, "request")
    /\ started' = started + 1
    /\ UNCHANGED <<solver_vars, repo_vars, crawler_vars, tries, new_element_path, old_length>>
    /\ UNCHANGED strategy_vars
    /\ UNCHANGED <<persistence_vars, query_vars, mutex_vars>>

\* probibalistic.py 122: craft_items returns an Element
Craft(t) ==
    /\ crawler = "ProbibalisticCrawler"
    /\ at[t] = "request"
    /\ \E text \in CraftTexts : result_element' = [result_element EXCEPT ![t] = text]
    /\ Goto(t, "process_recipe")
    /\ UNCHANGED <<solver_vars, started, repo_vars, crawler_vars, first, second, tries, new_element_path, old_length>>
    /\ UNCHANGED strategy_vars
    /\ UNCHANGED <<persistence_vars, query_vars, mutex_vars>>

\* probibalistic.py 122-126: craft_items returns None, continue
CraftNone(t) ==
    /\ crawler = "ProbibalisticCrawler"
    /\ at[t] = "request"
    /\ BackToSampling(t)
    /\ UNCHANGED <<solver_vars, started, repo_vars, crawler_vars>>
    /\ UNCHANGED strategy_vars
    /\ UNCHANGED <<persistence_vars, query_vars, mutex_vars>>

\* probibalistic.py 133-135
RecipesAdd(t) ==
    /\ crawler = "ProbibalisticCrawler"
    /\ at[t] = "process_recipe"
    /\ self_recipes' = self_recipes \cup {{first[t], second[t]}}
    /\ Goto(t, "add_recipe")
    /\ UNCHANGED <<solver_vars, started, repo_vars, crawler, elements_set, elements_list, elements_to_path,
                   sorted_elements, first, second, result_element, tries, new_element_path,
                   old_length>>
    /\ UNCHANGED strategy_vars
    /\ UNCHANGED <<persistence_vars, query_vars, mutex_vars>>

\* probibalistic.py 137-143: repository.add_recipe, then continue on "Nothing"
RepositoryAddRecipe(t) ==
    /\ crawler = "ProbibalisticCrawler"
    /\ at[t] = "add_recipe"
    /\ repo_recipes' = Append(repo_recipes,
                              [ingredients |-> {first[t], second[t]}, result |-> result_element[t]])
    /\ IF IsNothing(result_element[t])
       THEN BackToSampling(t)
       ELSE /\ Goto(t, "new_path")
            /\ UNCHANGED <<first, second, result_element, tries, new_element_path, old_length>>
    /\ UNCHANGED <<solver_vars, started, repo_elements, crawler_vars>>
    /\ UNCHANGED strategy_vars
    /\ UNCHANGED <<persistence_vars, query_vars, mutex_vars>>

\* probibalistic.py 145-148
ComputeNewPath(t) ==
    /\ crawler = "ProbibalisticCrawler"
    /\ at[t] = "new_path"
    /\ new_element_path' = [new_element_path EXCEPT ![t] =
           elements_to_path[first[t]] \cup elements_to_path[second[t]] \cup {result_element[t]}]
    /\ Goto(t, "known")
    /\ UNCHANGED <<solver_vars, started, repo_vars, crawler_vars, first, second, result_element, tries, old_length>>
    /\ UNCHANGED strategy_vars
    /\ UNCHANGED <<persistence_vars, query_vars, mutex_vars>>

\* probibalistic.py 150: `if result_element.text in self.elements_to_path`
CheckKnown(t) ==
    /\ crawler = "ProbibalisticCrawler"
    /\ at[t] = "known"
    /\ IF result_element[t] \in DOMAIN elements_to_path
       THEN Goto(t, "old_length")
       ELSE Goto(t, "store_new")
    /\ UNCHANGED <<solver_vars, started, repo_vars, crawler_vars, first, second, result_element, tries,
                   new_element_path, old_length>>
    /\ UNCHANGED strategy_vars
    /\ UNCHANGED <<persistence_vars, query_vars, mutex_vars>>

\* probibalistic.py 151-155 and 171
ReadOldLength(t) ==
    /\ crawler = "ProbibalisticCrawler"
    /\ at[t] = "old_length"
    /\ IF Cardinality(new_element_path[t]) < Cardinality(elements_to_path[result_element[t]])
       THEN /\ old_length' = [old_length EXCEPT ![t] =
                                  Cardinality(elements_to_path[result_element[t]])]
            /\ Goto(t, "store_shorter")
            /\ UNCHANGED <<first, second, result_element, tries, new_element_path>>
       ELSE BackToSampling(t)
    /\ UNCHANGED <<solver_vars, started, repo_vars, crawler_vars>>
    /\ UNCHANGED strategy_vars
    /\ UNCHANGED <<persistence_vars, query_vars, mutex_vars>>

\* probibalistic.py 165-166
StoreShorterPath(t) ==
    /\ crawler = "ProbibalisticCrawler"
    /\ at[t] = "store_shorter"
    /\ elements_to_path' = [elements_to_path EXCEPT ![result_element[t]] = new_element_path[t]]
    /\ Goto(t, "sort")
    /\ UNCHANGED <<solver_vars, started, repo_vars, crawler, self_recipes, elements_set, elements_list,
                   sorted_elements, first, second, result_element, tries, new_element_path,
                   old_length>>
    /\ UNCHANGED strategy_vars
    /\ UNCHANGED <<persistence_vars, query_vars, mutex_vars>>

\* probibalistic.py 169-171
SortAgain(t) ==
    /\ crawler = "ProbibalisticCrawler"
    /\ at[t] = "sort"
    /\ sorted_elements' = SortByDepth(sorted_elements, elements_to_path)
    /\ BackToSampling(t)
    /\ UNCHANGED <<solver_vars, started, repo_vars, crawler, self_recipes, elements_set, elements_list,
                   elements_to_path>>
    /\ UNCHANGED strategy_vars
    /\ UNCHANGED <<persistence_vars, query_vars, mutex_vars>>

\* probibalistic.py 175-176
StoreNewPath(t) ==
    /\ crawler = "ProbibalisticCrawler"
    /\ at[t] = "store_new"
    /\ elements_to_path' = Put(elements_to_path, result_element[t], new_element_path[t])
    /\ Goto(t, "add_element")
    /\ UNCHANGED <<solver_vars, started, repo_vars, crawler, self_recipes, elements_set, elements_list,
                   sorted_elements, first, second, result_element, tries, new_element_path,
                   old_length>>
    /\ UNCHANGED strategy_vars
    /\ UNCHANGED <<persistence_vars, query_vars, mutex_vars>>

\* probibalistic.py 178-179
RepositoryAddElement(t) ==
    /\ crawler = "ProbibalisticCrawler"
    /\ at[t] = "add_element"
    /\ repo_elements' = Append(repo_elements, result_element[t])
    /\ Goto(t, "insort")
    /\ UNCHANGED <<solver_vars, started, repo_recipes, crawler_vars, first, second, result_element, tries,
                   new_element_path, old_length>>
    /\ UNCHANGED strategy_vars
    /\ UNCHANGED <<persistence_vars, query_vars, mutex_vars>>

\* probibalistic.py 182-190
InsortNewElement(t) ==
    /\ crawler = "ProbibalisticCrawler"
    /\ at[t] = "insort"
    /\ sorted_elements' = Insort(sorted_elements, result_element[t], elements_to_path)
    /\ BackToSampling(t)
    /\ UNCHANGED <<solver_vars, started, repo_vars, crawler, self_recipes, elements_set, elements_list,
                   elements_to_path>>
    /\ UNCHANGED strategy_vars
    /\ UNCHANGED <<persistence_vars, query_vars, mutex_vars>>

ProbibalisticCrawl(t) ==
    \/ Sampling(t)
    \/ Craft(t)
    \/ CraftNone(t)
    \/ RecipesAdd(t)
    \/ RepositoryAddRecipe(t)
    \/ ComputeNewPath(t)
    \/ CheckKnown(t)
    \/ ReadOldLength(t)
    \/ StoreShorterPath(t)
    \/ StoreNewPath(t)
    \/ SortAgain(t)
    \/ RepositoryAddElement(t)
    \/ InsortNewElement(t)

CrawlNext == \E t \in Threads : CrawlerCrawl(t) \/ ProbibalisticCrawl(t)

CrawlSpec == CrawlInit /\ [][CrawlNext]_vars

----------------------------------------------------------------------------
\* Properties of the crawl loops

ElementStructures ==
    <<elements_set, elements_list, elements_to_path, sorted_elements, repo_elements>>

NothingInNoElementStructure ==
    /\ Nothing \notin elements_set
    /\ Nothing \notin Range(elements_list)
    /\ Nothing \notin DOMAIN elements_to_path
    /\ Nothing \notin Range(sorted_elements)
    /\ Nothing \notin Range(repo_elements)

\* the thread t takes a step of an iteration whose craft returned "Nothing"
NothingStep(t) ==
    /\ result_element[t] = Nothing
    /\ at[t] # "sample"
    /\ at'[t] # at[t]

\* after the step the pair {a, b} is recorded in memory, and with result "Nothing" in
\* the repository
RecipeRecorded(a, b) ==
    /\ {a, b} \in self_recipes'
    /\ \E k \in 1..Len(repo_recipes') :
          repo_recipes'[k] = [ingredients |-> {a, b}, result |-> Nothing]

----------------------------------------------------------------------------
\* ExhaustiveCrawler (crawler/exhaustive_by_depth.py).  Its threads run Crawler.crawl
\* with the methods below in place of the base class's.

\* the order of `<` on the element names (Python compares str by code point)
Alphabetical == [e \in Roots \cup NonRoots \cup {Nothing} |->
                    CASE e = "Dust" -> 1 [] e = "Earth" -> 2 [] e = "Fire" -> 3
                      [] e = "Life" -> 4 [] e = "Mud" -> 5 [] e = "Nothing" -> 6
                      [] e = "Plant" -> 7 [] e = "Steam" -> 8 [] e = "Water" -> 9
                      [] OTHER -> 10]

\* key=lambda el: (len(self.elements_to_path[el]), el), as one number per element
DepthThenName(etp) == [e \in DOMAIN etp |-> Cardinality(etp[e]) * 100 + Alphabetical[e]]

\* key=lambda el: len(self.elements_to_path[el])
DepthOnly(etp) == [e \in DOMAIN etp |-> Cardinality(etp[e])]

\* list.sort(key=...), a stable sort, for a key given per element
RECURSIVE SortBy(_, _)
SortBy(seq, key) ==
    IF seq = << >> THEN << >>
    ELSE LET n == Len(seq)
             x == seq[n]
             init == SortBy(SubSeq(seq, 1, n - 1), key)
             pos == Cardinality({k \in 1..(n - 1) : key[init[k]] <= key[x]})
         IN  SubSeq(init, 1, pos) \o <<x>> \o SubSeq(init, pos + 1, n - 1)

\* bisect.bisect_right with 0-based lo and hi, for a key given per element
RECURSIVE BisectRightBy(_, _, _, _, _)
BisectRightBy(a, kx, lo, hi, key) ==
    IF lo >= hi THEN lo
    ELSE LET mid == (lo + hi) \div 2
         IN  IF kx < key[a[mid + 1]]
             THEN BisectRightBy(a, kx, lo, mid, key)
             ELSE BisectRightBy(a, kx, mid + 1, hi, key)

\* bisect.insort(a, x, key=...)
InsortBy(a, x, key) ==
    LET pos == BisectRightBy(a, key[x], 0, Len(a), key)
    IN  SubSeq(a, 1, pos) \o <<x>> \o SubSeq(a, pos + 1, Len(a))

\* a faulty variant: a new row starts at column 1
IncrementSkippingColumn(dual_index_tuple) ==
    IF dual_index_tuple[1] = dual_index_tuple[2]
    THEN <<dual_index_tuple[1] + 1, 1>>
    ELSE <<dual_index_tuple[1], dual_index_tuple[2] + 1>>

\* increment_dual_index_tuple
increment_dual_index_tuple(dual_index_tuple) ==
    IF dual_index_tuple[1] = dual_index_tuple[2]
    THEN <<dual_index_tuple[1] + 1, 0>>
    ELSE <<dual_index_tuple[1], dual_index_tuple[2] + 1>>

\* self.sorted_elements[x] raises IndexError for an index at or past the end
InRange(sorted, index) == index[1] < Len(sorted) /\ index[2] < Len(sorted)

\* frozenset(self.sorted_elements[x] for x in index), the indices being 0-based
PairAt(sorted, index) == {sorted[index[1] + 1], sorted[index[2] + 1]}

\* a faulty variant: the cursor moves past its combination without looking at it
AdvanceOnce(index, updated, sorted, true_keys) ==
    IF ~InRange(sorted, index)
    THEN [index |-> index, updated |-> updated, error |-> TRUE]
    ELSE [index |-> increment_dual_index_tuple(index), updated |-> TRUE, error |-> FALSE]

\* The while loop of update_next_craft_combiantion from `index` on: the index it
\* stops at, whether it moved, and whether self.sorted_elements[x] raised IndexError.
RECURSIVE AdvancePastTrue(_, _, _, _)
AdvancePastTrue(index, updated, sorted, true_keys) ==
    IF ~InRange(sorted, index)
    THEN [index |-> index, updated |-> updated, error |-> TRUE]
    ELSE IF PairAt(sorted, index) \in true_keys
         THEN AdvancePastTrue(increment_dual_index_tuple(index), TRUE, sorted, true_keys)
         ELSE [index |-> index, updated |-> updated, error |-> FALSE]

\* a sampling loop that returns the cursor's pair without looking at self.recipes
PairAtCursor(index, sorted, keys) ==
    [index |-> index, error |-> ~InRange(sorted, index)]

\* The while loop of sample_elements from `index` on: the first index whose pair is
\* not a key of self.recipes, or IndexError.
RECURSIVE FirstUnclaimed(_, _, _)
FirstUnclaimed(index, sorted, keys) ==
    IF ~InRange(sorted, index)
    THEN [index |-> index, error |-> TRUE]
    ELSE IF PairAt(sorted, index) \in keys
         THEN FirstUnclaimed(increment_dual_index_tuple(index), sorted, keys)
         ELSE [index |-> index, error |-> FALSE]

\* Data directories an ExhaustiveCrawler is constructed on; cursor is the content of
\* exhaustive/next_craft_combination.txt, None if the file is absent.
ExhaustiveFreshData ==
    [elements |-> {"Water", "Fire"},
     recipes |-> << >>,
     paths |-> [e \in {"Water", "Fire"} |-> {}],
     cursor |-> None]

\* a run was interrupted after two crafts that gave "Nothing": one pair is left
ExhaustiveNearlyDoneData ==
    [elements |-> {"Water", "Fire"},
     recipes |-> << Recipe("Fire", "Fire", Nothing), Recipe("Water", "Fire", Nothing) >>,
     paths |-> [e \in {"Water", "Fire"} |-> {}],
     cursor |-> <<1, 1>>]

\* a checkpoint at Water+Water, and Steam+Steam -> Mud known from another crawler
ExhaustiveCheckpointData ==
    [elements |-> {"Water", "Fire", "Steam", "Mud"},
     recipes |-> << Recipe("Water", "Fire", "Steam"), Recipe("Steam", "Steam", "Mud"),
                    Recipe("Fire", "Fire", Nothing) >>,
     paths |-> [e \in {"Water", "Fire", "Steam", "Mud"} |->
                   CASE e = "Steam" -> {"Steam"}
                     [] e = "Mud" -> {"Steam", "Mud"}
                     [] OTHER -> {}],
     cursor |-> <<1, 1>>]

\* a checkpoint at Water+Water with Steam known: every pair left can give a new element
ExhaustiveSteamData ==
    [elements |-> {"Water", "Fire", "Steam"},
     recipes |-> << Recipe("Water", "Fire", "Steam"), Recipe("Fire", "Fire", Nothing) >>,
     paths |-> [e \in {"Water", "Fire", "Steam"} |->
                   IF e = "Steam" THEN {"Steam"} ELSE {}],
     cursor |-> <<1, 1>>]

ExhaustiveDataDirs ==
    {ExhaustiveFreshData, ExhaustiveNearlyDoneData, ExhaustiveCheckpointData,
     ExhaustiveSteamData}

\* the thread's crawl() ends with an uncaught IndexError
RaiseIndexError(t) ==
    /\ at' = [at EXCEPT ![t] = "IndexError"]
    /\ first' = [first EXCEPT ![t] = NoElement]
    /\ second' = [second EXCEPT ![t] = NoElement]
    /\ result_element' = [result_element EXCEPT ![t] = NoElement]
    /\ tries' = [tries EXCEPT ![t] = 0]
    /\ UNCHANGED <<new_element_path, old_length>>

\* ExhaustiveCrawler.init_data on a data directory
ExhaustiveInit ==
    /\ NoRepositoryUse
    /\ recipes = << >>
    /\ recipes_as_tuples = << >>
    /\ elements_paths = EmptyDict
    /\ iteration = 0
    /\ pc = "input"
    /\ prev_paths = EmptyDict
    /\ prev_ancestors = EmptyDict
    /\ prev_kind = "none"
    /\ appended = 0
    /\ crawler = "ExhaustiveCrawler"
    /\ elements_set = {}
    /\ elements_list = << >>
    /\ elements_to_target_similarity = EmptyDict
    /\ \E data \in ExhaustiveDataDirs :
          LET sorted == SortBy(Iterate(data.elements, 0), DepthThenName(data.paths))
              loaded == IF data.cursor = None THEN <<0, 0>> ELSE data.cursor
              out == AdvancePastTrue(loaded, FALSE, sorted, UsedPairs(data.recipes))
          IN  /\ repo_elements = Iterate(data.elements, 0)
              /\ repo_recipes = data.recipes
              /\ elements_to_path = data.paths
              /\ sorted_elements = sorted
              /\ self_recipes = UsedPairs(data.recipes)
              /\ recipes_true = UsedPairs(data.recipes)
              /\ next_craft_combination = out.index
              /\ next_craft_combination_txt = IF out.updated /\ ~out.error
                                              THEN out.index ELSE data.cursor
              /\ at = [t \in Threads |-> IF out.error THEN "IndexError" ELSE "sample"]
    /\ first = [t \in Threads |-> NoElement]
    /\ second = [t \in Threads |-> NoElement]
    /\ result_element = [t \in Threads |-> NoElement]
    /\ tries = [t \in Threads |-> 0]
    /\ new_element_path = [t \in Threads |-> {}]
    /\ old_length = [t \in Threads |-> 0]
    /\ started = 0

\* exhaustive_by_depth.py 103-122: sample_elements
ExhaustiveSampleElements(t) ==
    /\ crawler = "ExhaustiveCrawler"
    /\ at[t] = "sample"
    /\ CanStart
    /\ LET out == FirstUnclaimed(next_craft_combination, sorted_elements, self_recipes)
       IN  IF out.error
           THEN /\ RaiseIndexError(t)
                /\ UNCHANGED <<self_recipes, started>>
           ELSE /\ first' = [first EXCEPT ![t] = sorted_elements[out.index[1] + 1]]
                /\ second' = [second EXCEPT ![t] = sorted_elements[out.index[2] + 1]]
                /\ self_recipes' = self_recipes \cup {PairAt(sorted_elements, out.index)}
                /\ tries' = [tries EXCEPT ![t] = 0]
                /\ result_element' = [result_element EXCEPT ![t] = NoElement]
                /\ Goto(t, "request")
                /\ started' = started + 1
                /\ UNCHANGED <<new_element_path, old_length>>
    /\ UNCHANGED <<solver_vars, repo_vars, crawler, elements_set, elements_list,
                   elements_to_path, sorted_elements, strategy_vars>>
    /\ UNCHANGED <<persistence_vars, query_vars, mutex_vars>>

\* exhaustive_by_depth.py 133-140 and 84-101: process_recipe marks the pair True and
\* runs update_next_craft_combiantion
ExhaustiveProcessRecipe(t) ==
    /\ crawler = "ExhaustiveCrawler"
    /\ at[t] = "process_recipe"
    /\ LET done == recipes_true \cup {{first[t], second[t]}}
           out == AdvancePastTrue(next_craft_combination, FALSE, sorted_elements, done)
       IN  /\ recipes_true' = done
           /\ self_recipes' = self_recipes \cup {{first[t], second[t]}}
           /\ next_craft_combination' = out.index
           /\ IF out.error
              THEN /\ RaiseIndexError(t)
                   /\ UNCHANGED next_craft_combination_txt
              ELSE /\ next_craft_combination_txt' =
                          IF out.updated THEN out.index ELSE next_craft_combination_txt
                   /\ Goto(t, "add_recipe")
                   /\ UNCHANGED <<first, second, result_element, tries, new_element_path,
                                  old_length>>
    /\ UNCHANGED <<solver_vars, repo_vars, crawler, elements_set, elements_list,
                   elements_to_path, sorted_elements, elements_to_target_similarity,
                   started>>
    /\ UNCHANGED <<persistence_vars, query_vars, mutex_vars>>

\* exhaustive_by_depth.py 145-147: element_already_known
ExhaustiveElementAlreadyKnown(t) ==
    /\ crawler = "ExhaustiveCrawler"
    /\ at[t] = "classify"
    /\ ~IsNothing(result_element[t])
    /\ IF result_element[t] \in DOMAIN elements_to_path
       THEN Goto(t, "known")
       ELSE Goto(t, "new_repo")
    /\ UNCHANGED <<solver_vars, repo_vars, crawler_vars, strategy_vars, started, first,
                   second, result_element, tries, new_element_path, old_length>>
    /\ UNCHANGED <<persistence_vars, query_vars, mutex_vars>>

\* exhaustive_by_depth.py 149-170: process_known_element
ExhaustiveProcessKnownElement(t) ==
    /\ crawler = "ExhaustiveCrawler"
    /\ at[t] = "known"
    /\ LET path == elements_to_path[first[t]] \cup elements_to_path[second[t]]
                       \cup {result_element[t]}
           previous_depth == Cardinality(elements_to_path[result_element[t]])
           new_depth == Cardinality(path)
           stored == [elements_to_path EXCEPT ![result_element[t]] = path]
       IN  IF new_depth < previous_depth
           THEN /\ elements_to_path' = stored
                /\ sorted_elements' = SortBy(sorted_elements, DepthOnly(stored))
           ELSE UNCHANGED <<elements_to_path, sorted_elements>>
    /\ BackToSampling(t)
    /\ UNCHANGED <<solver_vars, repo_vars, crawler, self_recipes, elements_set,
                   elements_list, strategy_vars, started>>
    /\ UNCHANGED <<persistence_vars, query_vars, mutex_vars>>

\* exhaustive_by_depth.py 173-174: process_new_element, repository.add_element
ExhaustiveAddElement(t) ==
    /\ crawler = "ExhaustiveCrawler"
    /\ at[t] = "new_repo"
    /\ repo_elements' = Append(repo_elements, result_element[t])
    /\ Goto(t, "new_insort")
    /\ UNCHANGED <<solver_vars, repo_recipes, crawler_vars, strategy_vars, started, first,
                   second, result_element, tries, new_element_path, old_length>>
    /\ UNCHANGED <<persistence_vars, query_vars, mutex_vars>>

\* exhaustive_by_depth.py 177-184: process_new_element, the path and bisect.insort
ExhaustiveInsertElement(t) ==
    /\ crawler = "ExhaustiveCrawler"
    /\ at[t] = "new_insort"
    /\ LET path == elements_to_path[first[t]] \cup elements_to_path[second[t]]
                       \cup {result_element[t]}
           stored == Put(elements_to_path, result_element[t], path)
       IN  /\ elements_to_path' = stored
           /\ sorted_elements' = InsortBy(sorted_elements, result_element[t],
                                          DepthThenName(stored))
    /\ BackToSampling(t)
    /\ UNCHANGED <<solver_vars, repo_vars, crawler, self_recipes, elements_set,
                   elements_list, strategy_vars, started>>
    /\ UNCHANGED <<persistence_vars, query_vars, mutex_vars>>

ExhaustiveCrawl(t) ==
    \/ ExhaustiveSampleElements(t)
    \/ CraftItems(t)
    \/ CraftItemsNone(t)
    \/ RequestAgain(t)
    \/ CraftItemsServerError(t)
    \/ ExhaustiveProcessRecipe(t)
    \/ AddRecipe(t)
    \/ ProcessNothingResult(t)
    \/ ExhaustiveElementAlreadyKnown(t)
    \/ ExhaustiveProcessKnownElement(t)
    \/ ExhaustiveAddElement(t)
    \/ ExhaustiveInsertElement(t)

ExhaustiveNext == \E t \in Threads : ExhaustiveCrawl(t)

ExhaustiveSpec == ExhaustiveInit /\ [][ExhaustiveNext]_vars

----------------------------------------------------------------------------
\* TargetedCrawler (crawler/targeted.py).  Its threads run Crawler.crawl with
\* sample_elements, element_already_known and process_new_element of its own; no
\* forbidden pattern is configured.

\* text_similarity_calculator.similarity(target, element) in hundredths, a fixed
\* function of the element's text
TargetSimilarity == [e \in Roots \cup NonRoots \cup {Nothing} |->
                        CASE e = "Mud" -> 90 [] e = "Steam" -> 55 [] e = "Water" -> 50
                          [] e = "Earth" -> 45 [] e = "Fire" -> 20 [] OTHER -> 30]

\* len(element_name)
NameLength == [e \in Roots \cup NonRoots \cup {Nothing} |->
                  CASE e \in {"Mud"} -> 3
                    [] e \in {"Fire", "Wind", "Life", "Dust"} -> 4
                    [] e \in {"Water", "Earth", "Steam", "Plant"} -> 5
                    [] OTHER -> 7]

\* _sort_key with penalty 0, in hundredths
sort_key(similarity) == [e \in DOMAIN similarity |-> -(similarity[e] - NameLength[e])]

\* TargetedCrawler.init_data on a data directory
TargetedInit ==
    /\ NoRepositoryUse
    /\ recipes = << >>
    /\ recipes_as_tuples = << >>
    /\ elements_paths = EmptyDict
    /\ iteration = 0
    /\ pc = "input"
    /\ prev_paths = EmptyDict
    /\ prev_ancestors = EmptyDict
    /\ prev_kind = "none"
    /\ appended = 0
    /\ crawler = "TargetedCrawler"
    /\ elements_set = {}
    /\ elements_list = << >>
    /\ elements_to_path = EmptyDict
    /\ recipes_true = {}
    /\ next_craft_combination = <<0, 0>>
    /\ next_craft_combination_txt = None
    /\ \E data \in DataDirs, seed \in HashSeeds :
          LET similarity == [e \in data.elements |-> TargetSimilarity[e]]
          IN  /\ repo_elements = Iterate(data.elements, 0)
              /\ repo_recipes = data.recipes
              /\ elements_to_target_similarity = similarity
              /\ sorted_elements = SortBy(Iterate(data.elements, seed), sort_key(similarity))
              /\ self_recipes = UsedPairs(data.recipes)
    /\ at = [t \in Threads |-> "sample"]
    /\ first = [t \in Threads |-> NoElement]
    /\ second = [t \in Threads |-> NoElement]
    /\ result_element = [t \in Threads |-> NoElement]
    /\ tries = [t \in Threads |-> 0]
    /\ new_element_path = [t \in Threads |-> {}]
    /\ old_length = [t \in Threads |-> 0]
    /\ started = 0

\* targeted.py 197-217: sample_elements draws two indices below len(sorted_elements)
\* until the pair is not in self.recipes (every index pair has a probability above zero)
TargetedSampleElements(t) ==
    /\ crawler = "TargetedCrawler"
    /\ at[t] = "sample"
    /\ CanStart
    /\ \E i \in 1..Len(sorted_elements), j \in 1..Len(sorted_elements) :
          /\ {sorted_elements[i], sorted_elements[j]} \notin self_recipes
          /\ first' = [first EXCEPT ![t] = sorted_elements[i]]
          /\ second' = [second EXCEPT ![t] = sorted_elements[j]]
    /\ tries' = [tries EXCEPT ![t] = 0]
    /\ result_element' = [result_element EXCEPT ![t] = NoElement]
    /\ Goto(t, "request")
    /\ started' = started + 1
    /\ UNCHANGED <<solver_vars, repo_vars, crawler_vars, strategy_vars, new_element_path,
                   old_length>>
    /\ UNCHANGED <<persistence_vars, query_vars, mutex_vars>>

\* targeted.py 219-220 and common.py 112-114: element_already_known
TargetedElementAlreadyKnown(t) ==
    /\ crawler = "TargetedCrawler"
    /\ at[t] = "classify"
    /\ ~IsNothing(result_element[t])
    /\ IF result_element[t] \in DOMAIN elements_to_target_similarity
       THEN BackToSampling(t)
       ELSE /\ Goto(t, "new_repo")
            /\ UNCHANGED <<first, second, result_element, tries, new_element_path,
                           old_length>>
    /\ UNCHANGED <<solver_vars, repo_vars, crawler_vars, strategy_vars, started>>
    /\ UNCHANGED <<persistence_vars, query_vars, mutex_vars>>

\* targeted.py 223-224: process_new_element, repository.add_element
TargetedAddElement(t) ==
    /\ crawler = "TargetedCrawler"
    /\ at[t] = "new_repo"
    /\ repo_elements' = Append(repo_elements, result_element[t])
    /\ Goto(t, "new_insort")
    /\ UNCHANGED <<solver_vars, repo_recipes, crawler_vars, strategy_vars, started, first,
                   second, result_element, tries, new_element_path, old_length>>
    /\ UNCHANGED <<persistence_vars, query_vars, mutex_vars>>

\* targeted.py 227-234: process_new_element, the similarity and bisect.insort
TargetedInsertElement(t) ==
    /\ crawler = "TargetedCrawler"
    /\ at[t] = "new_insort"
    /\ LET similarity == Put(elements_to_target_similarity, result_element[t],
                             TargetSimilarity[result_element[t]])
       IN  /\ elements_to_target_similarity' = similarity
           /\ sorted_elements' = InsortBy(sorted_elements, result_element[t],
                                          sort_key(similarity))
    /\ BackToSampling(t)
    /\ UNCHANGED <<solver_vars, repo_vars, crawler, self_recipes, elements_set,
                   elements_list, elements_to_path, recipes_true, next_craft_combination,
                   next_craft_combination_txt, started>>
    /\ UNCHANGED <<persistence_vars, query_vars, mutex_vars>>

TargetedCrawl(t) ==
    \/ TargetedSampleElements(t)
    \/ CraftItems(t)
    \/ CraftItemsNone(t)
    \/ RequestAgain(t)
    \/ CraftItemsServerError(t)
    \/ ProcessRecipe(t)
    \/ AddRecipe(t)
    \/ ProcessNothingResult(t)
    \/ TargetedElementAlreadyKnown(t)
    \/ TargetedAddElement(t)
    \/ TargetedInsertElement(t)

TargetedNext == \E t \in Threads : TargetedCrawl(t)

TargetedSpec == TargetedInit /\ [][TargetedNext]_vars

----------------------------------------------------------------------------
\* The three crawlers that can be constructed (Crawler itself is abstract), each on
\* its data directories and with its own threads.

CrawlersInit ==
    \/ CrawlInit /\ crawler = "ProbibalisticCrawler"
    \/ ExhaustiveInit
    \/ TargetedInit

CrawlersNext ==
    \E t \in Threads : ProbibalisticCrawl(t) \/ ExhaustiveCrawl(t) \/ TargetedCrawl(t)

CrawlersSpec == CrawlersInit /\ [][CrawlersNext]_vars

----------------------------------------------------------------------------
\* Properties of sampling

\* C11: no pair returned by a sampling strategy (ExhaustiveCrawler.sample_elements,
\* skewed_towards_low_depth, fully_random, TargetedCrawler.sample_elements) contains
\* "Nothing", and no recorded recipe has "Nothing" as an ingredient.
C11_NothingIsNeverSampled ==
    /\ \A t \in Threads : first[t] # Nothing /\ second[t] # Nothing
    /\ \A k \in 1..Len(repo_recipes) : Nothing \notin repo_recipes[k].ingredients
    /\ \A ingredients \in self_recipes : Nothing \notin ingredients

\* a craft has returned "Nothing", its recipe is stored, and a pair was sampled after it
C11_Witness ==
    /\ \E k \in 1..Len(repo_recipes) :
          /\ repo_recipes[k].result = Nothing
          /\ repo_recipes[k].ingredients \notin UsedPairs(PopulatedData.recipes)
          /\ repo_recipes[k].ingredients \notin UsedPairs(ExhaustiveCheckpointData.recipes)
          /\ repo_recipes[k].ingredients \notin UsedPairs(ExhaustiveNearlyDoneData.recipes)
    /\ \E t \in Threads : at[t] = "request" /\ started = MaxCrafts
    /\ \A t \in Threads : at[t] \in {"request", "sample"}

----------------------------------------------------------------------------
\* Properties of ExhaustiveCrawler

\* the thread holds a sampled pair whose iteration has not ended
InFlight(t) == first[t] # NoElement

\* the thread's step is a sample_elements call that returns a pair
ReturnsPair(t) == at[t] = "sample" /\ at'[t] = "request"

\* C12: ExhaustiveCrawler.sample_elements never returns a pair that is a key of the
\* claim map (pending or committed); keys are never removed, so no pair is returned
\* twice in a run, and no two threads hold the same unordered pair in flight.
C12_NoPairClaimedTwice ==
    /\ [](\A t1, t2 \in Threads :
             (t1 # t2 /\ InFlight(t1) /\ InFlight(t2))
                 => {first[t1], second[t1]} # {first[t2], second[t2]})
    /\ [][/\ self_recipes \subseteq self_recipes'
          /\ \A t \in Threads :
                ReturnsPair(t) => /\ {first'[t], second'[t]} \notin self_recipes
                                  /\ {first'[t], second'[t]} \in self_recipes']_vars

\* every thread is in flight at once, each with a pending claim of its own
C12_Witness ==
    /\ crawler = "ExhaustiveCrawler"
    /\ \A t \in Threads : at[t] = "request" /\ InFlight(t)
    /\ Cardinality(self_recipes \ recipes_true) = Cardinality(Threads)
    /\ started = MaxCrafts

\* Threads are operating-system threads: one that can take a step of its loop
\* eventually takes it.
FairExhaustiveSpec == ExhaustiveSpec /\ \A t \in Threads : WF_vars(ExhaustiveCrawl(t))

\* every unordered pair of known elements has its recipe in the repository
AllPairsStored ==
    \A i, j \in 1..Len(sorted_elements) :
        {sorted_elements[i], sorted_elements[j]} \in UsedPairs(repo_recipes)

\* a craft has returned an element that is not known
ElementDiscovered ==
    \E t \in Threads :
        \/ result_element[t] \notin {NoElement, Nothing} \cup DOMAIN elements_to_path
        \/ at[t] \in {"new_repo", "new_insort"}

\* a pair was given up after repeated server errors: claimed, not committed, and held
\* by no thread
AbandonedClaim ==
    \E pair \in self_recipes \ recipes_true :
        \A t \in Threads : ~(InFlight(t) /\ {first[t], second[t]} = pair)

\* the run has used up the number of crafts the model allows
CraftsUsedUp == started = MaxCrafts

\* C13: an ExhaustiveCrawler (re)started from a checkpointed cursor never requests a
\* pair already committed, and with fair threads, crafts that succeed and no new
\* element it eventually has a recipe stored for every unordered pair of known elements.
C13_RestartCommitsEveryRemainingPair ==
    /\ [](\A t \in Threads : at[t] = "request" => {first[t], second[t]} \notin recipes_true)
    /\ <>(AllPairsStored \/ ElementDiscovered \/ AbandonedClaim \/ CraftsUsedUp)

\* the index tuples that increment_dual_index_tuple yields before reaching `index`
\* when started at (0, 0)
IndicesBefore(index) ==
    {ij \in (0..index[1]) \X (0..index[1]) :
        /\ ij[2] <= ij[1]
        /\ (ij[1] < index[1]) \/ (ij[1] = index[1] /\ ij[2] < index[2])}

\* C14: in every state of an ExhaustiveCrawler run, every combination below the cursor
\* saved in exhaustive/next_craft_combination.txt has its recipe in the repository.
C14_SavedCursorOnlyPastStoredRecipes ==
    (crawler = "ExhaustiveCrawler" /\ next_craft_combination_txt # None) =>
        \A index \in IndicesBefore(next_craft_combination_txt) :
            InRange(sorted_elements, index) =>
                PairAt(sorted_elements, index) \in UsedPairs(repo_recipes)

----------------------------------------------------------------------------
\* Properties of failed crafts

\* the thread's step is the return of craft_items with None
ReturnsNone(t) ==
    /\ at[t] = "request"
    /\ at'[t] \in {"no_result", "sample"}
    /\ tries'[t] = tries[t]

\* the thread's step is the one it takes after craft_items returned None in Crawler.crawl
AfterNone(t) == at[t] = "no_result" /\ at'[t] # at[t]

\* C15: when craft_items returns None the thread goes back to sampling, and no recipe
\* is recorded for the pair, neither in self.recipes nor in the repository.
C15_NoResultBackToSampling ==
    [][\A t \in Threads :
          /\ ReturnsNone(t) =>
                /\ repo_recipes' = repo_recipes
                /\ self_recipes' = self_recipes
          /\ AfterNone(t) =>
                /\ at'[t] = "sample"
                /\ repo_recipes' = repo_recipes
                /\ self_recipes' = self_recipes]_vars

\* the thread's step ends an iteration without a result: the pair is given up after
\* repeated server errors (common.py 90-97), or craft_items returned None
\* (probibalistic.py 122-126)
FailedIterationEnd(t) == at[t] = "request" /\ at'[t] = "sample"

\* the keys of self.recipes whose value is False (exhaustive_by_depth.py 50)
PendingClaims == IF crawler = "ExhaustiveCrawler" THEN self_recipes \ recipes_true ELSE {}

\* what the threads share: self.recipes, the path map, the sorted list, the cursor and
\* its file, the repository
SharedState ==
    <<self_recipes, recipes_true, elements_to_path, sorted_elements, elements_set,
      elements_list, elements_to_target_similarity, next_craft_combination,
      next_craft_combination_txt, repo_elements, repo_recipes>>

\* C16: an iteration that ends with a craft failure leaves the shared state as it was
\* before its sampling step: its last step changes nothing, and the pair it sampled,
\* which was not a key of the claim map before, is not left in it as a pending claim.
C16_FailedIterationLeavesNoTrace ==
    [][\A t \in Threads :
          FailedIterationEnd(t) =>
              /\ UNCHANGED SharedState
              /\ {first[t], second[t]} \notin PendingClaims']_vars

----------------------------------------------------------------------------
\* Properties of concurrent discovery

\* C17: once an element has a stored path, the stored path is only ever replaced by
\* one of strictly smaller cardinality.
C17_StoredPathNeverGrows ==
    [][\A e \in DOMAIN elements_to_path :
          /\ e \in DOMAIN elements_to_path'
          /\ elements_to_path'[e] # elements_to_path[e] =>
                Cardinality(elements_to_path'[e]) < Cardinality(elements_to_path[e])]_vars

\* the list holds no value twice
EachOnce(seq) == \A i, j \in 1..Len(seq) : seq[i] = seq[j] => i = j

\* C18: no element name is inserted twice: the sorted element list holds each name
\* once, and repository.add_element has appended each name at most once.
C18_ElementInsertedOnce ==
    /\ EachOnce(sorted_elements)
    /\ EachOnce(repo_elements)

\* C19: the repository holds at most one recipe record per unordered ingredient pair.
C19_OneRecipePerPair ==
    \A i, j \in 1..Len(repo_recipes) :
        repo_recipes[i].ingredients = repo_recipes[j].ingredients => i = j

\* C20: reading the repository's recipes in append order, each ingredient of a recipe
\* is a root element or the result of a recipe appended earlier.
C20_IngredientsMadeBefore ==
    \A k \in 1..Len(repo_recipes) :
        \A ingredient \in repo_recipes[k].ingredients :
            \/ ingredient \in Roots
            \/ \E j \in 1..(k - 1) : repo_recipes[j].result = ingredient

\* an element discovered in this run (on a directory without recipes) is an ingredient
\* of a recipe appended later in the run
C20_Witness ==
    /\ Len(repo_recipes) = 2
    /\ repo_recipes[1].result = "Mud"
    /\ "Mud" \notin repo_recipes[1].ingredients
    /\ "Mud" \in repo_recipes[2].ingredients

----------------------------------------------------------------------------
\* Properties of the repository's elements

\* the thread's step ends an iteration whose craft returned an element: the recipe
\* has been appended (common.py 104, probibalistic.py 137-138) and the thread is back
\* at sampling
IterationWithElementEnds(t) ==
    /\ result_element[t] \notin {NoElement, Nothing}
    /\ at[t] # "sample"
    /\ at'[t] = "sample"

\* the step appends an element to the repository
ElementAppended == Len(repo_elements') = Len(repo_elements) + 1

\* C21: when a thread is back at sampling after an iteration whose recipe has a result
\* other than "Nothing", that result is among the repository's elements; and an element
\* is appended to the repository only after a recipe producing it.
C21_MadeElementsAreSaved ==
    [][/\ \A t \in Threads :
             IterationWithElementEnds(t) => result_element[t] \in Range(repo_elements')
       /\ ElementAppended =>
             \E k \in 1..Len(repo_recipes) :
                 repo_recipes[k].result = repo_elements'[Len(repo_elements')]]_vars

----------------------------------------------------------------------------
\* FileRepository.load_recipes (persistence/csv_file.py, persistence/json_file.py)

RepositoryClasses == {"PaginatedCsvRepository", "JsonRepository"}

\* How many recipe rows a stored recipe file holds at most.
MaxStored == 3

\* the rows a recipes file can hold: first, second, result
StoredRows ==
    {Recipe(a, b, r) : a \in {"Water", "Fire"}, b \in {"Water", "Fire"},
                       r \in {"Steam", "Mud", Nothing}}

\* the recipe files: add_recipe appends a row without looking at the rows before it
StoredRecipeLists == UNION {[1..n -> StoredRows] : n \in 0..MaxStored}

\* `result[frozenset((first, second))] = result` for the rows from k on, on an
\* OrderedDict kept as the sequence of its items: a key met again keeps its position
\* and takes the new value
RECURSIVE OrderedDictFrom(_, _, _)
OrderedDictFrom(rows, k, od) ==
    IF k > Len(rows) THEN od
    ELSE LET row == rows[k]
             seen == {i \in 1..Len(od) : od[i].ingredients = row.ingredients}
             next == IF seen = {}
                     THEN Append(od, row)
                     ELSE [i \in 1..Len(od) |-> IF i \in seen THEN row ELSE od[i]]
         IN  OrderedDictFrom(rows, k + 1, next)

\* csv_file.py 61-71: PaginatedCsvRepository.load_recipes
CsvLoadRecipes(rows) ==
    [kind |-> "returned", recipes |-> OrderedDictFrom(rows, 1, << >>)]

\* json_file.py 55-68: JsonRepository.load_recipes
JsonLoadRecipes(rows) ==
    LET result == OrderedDictFrom(rows, 1, << >>)
    IN  IF Len(result) # Len(rows)
        THEN [kind |-> "DataError"]
        ELSE [kind |-> "returned", recipes |-> result]

\* a repository of either class on a data directory with a stored recipe file
LoadInit ==
    /\ owner = EmptyDict
    /\ running = EmptyDict
    /\ recipes = << >>
    /\ recipes_as_tuples = << >>
    /\ elements_paths = EmptyDict
    /\ iteration = 0
    /\ pc = "input"
    /\ prev_paths = EmptyDict
    /\ prev_ancestors = EmptyDict
    /\ prev_kind = "none"
    /\ appended = 0
    /\ repo_elements = << >>
    /\ repo_recipes \in StoredRecipeLists
    /\ crawler = "none"
    /\ self_recipes = {}
    /\ elements_set = {}
    /\ elements_list = << >>
    /\ elements_to_path = EmptyDict
    /\ sorted_elements = << >>
    /\ recipes_true = {}
    /\ next_craft_combination = <<0, 0>>
    /\ next_craft_combination_txt = None
    /\ elements_to_target_similarity = EmptyDict
    /\ at = EmptyDict
    /\ first = EmptyDict
    /\ second = EmptyDict
    /\ result_element = EmptyDict
    /\ tries = EmptyDict
    /\ new_element_path = EmptyDict
    /\ old_length = EmptyDict
    /\ started = 0
    /\ repository \in RepositoryClasses
    /\ load_result = NotCalled
    /\ lock_holder = NoHolder
    /\ proc_at = EmptyDict
    /\ lock_acquired = EmptyDict
    /\ data_loaded = EmptyDict
    /\ element_ancestors = NoQuery
    /\ query_result = NoQuery

\* repository.load_recipes()
LoadRecipes ==
    /\ repository \in RepositoryClasses
    /\ load_result = NotCalled
    /\ load_result' = IF repository = "JsonRepository"
                      THEN JsonLoadRecipes(repo_recipes)
                      ELSE CsvLoadRecipes(repo_recipes)
    /\ UNCHANGED <<solver_vars, repo_vars, crawler_vars, strategy_vars, thread_vars, started,
                   repository, lock_holder, proc_at, lock_acquired, data_loaded, query_vars, mutex_vars>>

LoadNext == LoadRecipes

LoadSpec == LoadInit /\ [][LoadNext]_vars

\* the stored rows hold one unordered pair with two different results
ConflictingResults(rows) ==
    \E i, j \in 1..Len(rows) :
        rows[i].ingredients = rows[j].ingredients /\ rows[i].result # rows[j].result

\* C22: load_recipes, of the CSV and of the JSON repository, ends with DataError on a
\* stored recipe list in which one unordered pair has two different results; it returns
\* no mapping for such a list.
C22_ConflictingRecipesRejected ==
    (load_result # NotCalled /\ ConflictingResults(repo_recipes))
        => load_result.kind = "DataError"

----------------------------------------------------------------------------
\* The writer lock of a data directory (persistence/common.py, crawler/common.py)

\* the processes that open the same data directory, one repository each (cli.py)
Procs == {"p1", "p2", "p3"}

NotLoaded == [kind |-> "not loaded"]

\* what repository.add_element and repository.add_recipe are called with
AddedElements == {"Steam"}
AddedRows == {Recipe("Water", "Fire", "Steam"), Recipe("Water", "Water", "Mud")}

\* self.lock.acquire(blocking=False) of process p: the lock file of the data directory
\* is locked by at most one process
LockFree == lock_holder = NoHolder

\* common.py 56-60: Crawler.init_data
InitData ==
    [kind |-> "loaded",
     elements |-> Range(repo_elements),
     recipes |-> {repo_recipes[k].ingredients : k \in 1..Len(repo_recipes)}]

LockInit ==
    /\ owner = EmptyDict
    /\ running = EmptyDict
    /\ recipes = << >>
    /\ recipes_as_tuples = << >>
    /\ elements_paths = EmptyDict
    /\ iteration = 0
    /\ pc = "input"
    /\ prev_paths = EmptyDict
    /\ prev_ancestors = EmptyDict
    /\ prev_kind = "none"
    /\ appended = 0
    /\ repo_elements = <<"Water", "Fire">>
    /\ repo_recipes = << >>
    /\ crawler = "none"
    /\ self_recipes = {}
    /\ elements_set = {}
    /\ elements_list = << >>
    /\ elements_to_path = EmptyDict
    /\ sorted_elements = << >>
    /\ recipes_true = {}
    /\ next_craft_combination = <<0, 0>>
    /\ next_craft_combination_txt = None
    /\ elements_to_target_similarity = EmptyDict
    /\ at = EmptyDict
    /\ first = EmptyDict
    /\ second = EmptyDict
    /\ result_element = EmptyDict
    /\ tries = EmptyDict
    /\ new_element_path = EmptyDict
    /\ old_length = EmptyDict
    /\ started = 0
    /\ repository = "PaginatedCsvRepository"
    /\ load_result = NotCalled
    /\ lock_holder = NoHolder
    /\ proc_at = [p \in Procs |-> "start"]
    /\ lock_acquired = [p \in Procs |-> FALSE]
    /\ data_loaded = [p \in Procs |-> NotLoaded]
    /\ element_ancestors = NoQuery
    /\ query_result = NoQuery

\* common.py 40-48: FileRepository.__init__(data_dir, write_access)
ConstructRepository(p, write_access) ==
    /\ proc_at[p] = "start"
    /\ IF ~write_access
       THEN /\ proc_at' = Put(proc_at, p, "repository")
            /\ UNCHANGED <<lock_holder, lock_acquired>>
       ELSE IF LockFree
       THEN /\ lock_holder' = p
            /\ lock_acquired' = Put(lock_acquired, p, TRUE)
            /\ proc_at' = Put(proc_at, p, "repository")
       ELSE /\ proc_at' = Put(proc_at, p, "WriteAccessLocked")
            /\ UNCHANGED <<lock_holder, lock_acquired>>
    /\ UNCHANGED <<solver_vars, repo_vars, crawler_vars, strategy_vars, thread_vars, started,
                   repository, load_result, data_loaded, query_vars, mutex_vars>>

\* a faulty variant: the lock is taken without asking who holds it
AcquireAlwaysSucceeds(p) == TRUE

\* common.py 54-57: acquire_write_access() returns True
AcquireSucceeds(p) == lock_acquired[p] \/ LockFree

\* crawler/common.py 26-36: Crawler.__init__(repository)
ConstructCrawler(p) ==
    /\ proc_at[p] = "repository"
    /\ IF AcquireSucceeds(p)
       THEN /\ lock_holder' = p
            /\ lock_acquired' = Put(lock_acquired, p, TRUE)
            /\ data_loaded' = Put(data_loaded, p, InitData)
            /\ proc_at' = Put(proc_at, p, "crawler")
       ELSE /\ proc_at' = Put(proc_at, p, "WriteAccessLocked")
            /\ UNCHANGED <<lock_holder, lock_acquired, data_loaded>>
    /\ UNCHANGED <<solver_vars, repo_vars, crawler_vars, strategy_vars, thread_vars, started,
                   repository, load_result, query_vars, mutex_vars>>

\* common.py 50-52: has_write_access
HasWriteAccess(p) == lock_acquired[p]

\* common.py 79-83: add_element(element)
AddElementChecked(p, element) ==
    /\ proc_at[p] \in {"repository", "crawler"}
    /\ Len(repo_elements) < MaxStored
    /\ IF ~HasWriteAccess(p)
       THEN /\ proc_at' = Put(proc_at, p, "NoWriteAccess")
            /\ UNCHANGED repo_elements
       ELSE /\ repo_elements' = Append(repo_elements, element)
            /\ UNCHANGED proc_at
    /\ UNCHANGED <<solver_vars, repo_recipes, crawler_vars, strategy_vars, thread_vars, started,
                   repository, load_result, lock_holder, lock_acquired, data_loaded,
                   query_vars, mutex_vars>>

\* common.py 88-92: add_recipe(ingredients, result)
AddRecipeChecked(p, row) ==
    /\ proc_at[p] \in {"repository", "crawler"}
    /\ Len(repo_recipes) < MaxStored
    /\ IF ~HasWriteAccess(p)
       THEN /\ proc_at' = Put(proc_at, p, "NoWriteAccess")
            /\ UNCHANGED repo_recipes
       ELSE /\ repo_recipes' = Append(repo_recipes, row)
            /\ UNCHANGED proc_at
    /\ UNCHANGED <<solver_vars, repo_elements, crawler_vars, strategy_vars, thread_vars,
                   started, repository, load_result, lock_holder, lock_acquired, data_loaded,
                   query_vars, mutex_vars>>

\* common.py 59-61: release_write_access()
ReleaseWriteAccess(p) ==
    /\ proc_at[p] \in {"repository", "crawler"}
    /\ lock_acquired[p]
    /\ lock_holder' = NoHolder
    /\ lock_acquired' = Put(lock_acquired, p, FALSE)
    /\ UNCHANGED <<solver_vars, repo_vars, crawler_vars, strategy_vars, thread_vars, started,
                   repository, load_result, proc_at, data_loaded, query_vars, mutex_vars>>

LockNext ==
    \E p \in Procs :
        \/ \E write_access \in BOOLEAN : ConstructRepository(p, write_access)
        \/ ConstructCrawler(p)
        \/ \E element \in AddedElements : AddElementChecked(p, element)
        \/ \E row \in AddedRows : AddRecipeChecked(p, row)
        \/ ReleaseWriteAccess(p)

LockSpec == LockInit /\ [][LockNext]_vars

\* Crawler.__init__ of process p ends in this step, with a crawler or with an exception
CrawlerConstructed(p) ==
    /\ proc_at[p] = "repository"
    /\ proc_at'[p] \in {"crawler", "WriteAccessLocked"}

\* add_element or add_recipe of process p raises NoWriteAccess in this step
RaisesNoWriteAccess(p) ==
    /\ proc_at[p] # "NoWriteAccess"
    /\ proc_at'[p] = "NoWriteAccess"

\* C23: at most one process has write access to the data directory at a time; a crawler
\* constructed while another process holds the writer lock raises WriteAccessLocked and
\* has loaded no data; add_element and add_recipe change the stored elements and recipes
\* only for a process that has write access, and raise NoWriteAccess, leaving both
\* unchanged, for one that has not.
C23_OneWriter ==
    [][/\ Cardinality({p \in Procs : lock_acquired'[p]}) <= 1
       /\ \A p \in Procs : lock_acquired'[p] => lock_holder' = p
       /\ \A p \in Procs :
            (CrawlerConstructed(p) /\ \E q \in Procs \ {p} : lock_acquired[q])
                => (proc_at'[p] = "WriteAccessLocked" /\ data_loaded'[p] = NotLoaded)
       /\ \A p \in Procs :
            RaisesNoWriteAccess(p) => (~lock_acquired[p] /\ UNCHANGED repo_vars)
       /\ repo_vars' # repo_vars =>
            \E p \in Procs : lock_acquired[p] /\ proc_at[p] \in {"repository", "crawler"}
       /\ \A p \in Procs :
            (proc_at[p] \in {"repository", "crawler"} /\ ~lock_acquired[p]
                /\ proc_at'[p] = proc_at[p] /\ lock_acquired'[p] = lock_acquired[p])
                => (repo_vars' # repo_vars => \E q \in Procs \ {p} : lock_acquired[q])]_vars

\* one process has a crawler and has stored a recipe, a second one was refused the
\* lock without loading data, a third one was refused an addition
C23_Witness ==
    \E p, q, r \in Procs :
        /\ proc_at[p] = "crawler" /\ lock_acquired[p] /\ data_loaded[p] # NotLoaded
        /\ repo_recipes # << >>
        /\ Len(repo_elements) > 2
        /\ proc_at[q] = "WriteAccessLocked" /\ data_loaded[q] = NotLoaded
        /\ proc_at[r] = "NoWriteAccess" /\ ~lock_acquired[r]

----------------------------------------------------------------------------
\* FullRecipeQuery (query_full_recipe.py)

\* the character U+2019, the right single quotation mark
RightQuote == "U+2019"

\* the characters of the names; a name written with (U+2019) has that character there
Chars ==
       "Water" :> <<"W", "a", "t", "e", "r">>
    @@ "water" :> <<"w", "a", "t", "e", "r">>
    @@ "Steam" :> <<"S", "t", "e", "a", "m">>
    @@ "Mud" :> <<"M", "u", "d">>
    @@ "Life" :> <<"L", "i", "f", "e">>
    @@ "Dust" :> <<"D", "u", "s", "t">>
    @@ "Plant" :> <<"P", "l", "a", "n", "t">>
    @@ "ma's pie" :> <<"m", "a", "'", "s", " ", "p", "i", "e">>
    @@ "ma(U+2019)s pie" :> <<"m", "a", RightQuote, "s", " ", "p", "i", "e">>
    @@ "Ma's Pie" :> <<"M", "a", "'", "s", " ", "P", "i", "e">>
    @@ "Ma(U+2019)s Pie" :> <<"M", "a", RightQuote, "s", " ", "P", "i", "e">>
    @@ "USA" :> <<"U", "S", "A">>
    @@ "Usa" :> <<"U", "s", "a">>
    @@ "Unknown" :> <<"U", "n", "k", "n", "o", "w", "n">>

\* a name that is none of the names above
OtherName == "(another name)"

NameOf(chars) ==
    IF \E n \in DOMAIN Chars : Chars[n] = chars
    THEN CHOOSE n \in DOMAIN Chars : Chars[n] = chars
    ELSE OtherName

UpperOf ==
       "a" :> "A" @@ "d" :> "D" @@ "e" :> "E" @@ "f" :> "F" @@ "i" :> "I" @@ "k" :> "K"
    @@ "l" :> "L" @@ "m" :> "M" @@ "n" :> "N" @@ "o" :> "O" @@ "p" :> "P" @@ "r" :> "R"
    @@ "s" :> "S" @@ "t" :> "T" @@ "u" :> "U" @@ "w" :> "W"

Upper(c) == IF c \in DOMAIN UpperOf THEN UpperOf[c] ELSE c

Lower(c) ==
    IF \E l \in DOMAIN UpperOf : UpperOf[l] = c
    THEN CHOOSE l \in DOMAIN UpperOf : UpperOf[l] = c
    ELSE c

\* s.replace("'", U+2019)
ReplaceQuote(chars) ==
    [i \in 1..Len(chars) |-> IF chars[i] = "'" THEN RightQuote ELSE chars[i]]

\* s.split(): the words between runs of blanks, from position k on
RECURSIVE SplitFrom(_, _)
SplitFrom(chars, k) ==
    IF k > Len(chars) THEN << >>
    ELSE IF chars[k] = " " THEN SplitFrom(chars, k + 1)
    ELSE LET end == CHOOSE j \in k..Len(chars) :
                        /\ \A i \in k..j : chars[i] # " "
                        /\ (j = Len(chars) \/ chars[j + 1] = " ")
         IN  <<SubSeq(chars, k, end)>> \o SplitFrom(chars, end + 1)

\* word.capitalize()
Capitalize(word) ==
    [i \in 1..Len(word) |-> IF i = 1 THEN Upper(word[i]) ELSE Lower(word[i])]

\* " ".join(words)
RECURSIVE Join(_)
Join(words) ==
    IF words = << >> THEN << >>
    ELSE IF Len(words) = 1 THEN words[1]
    ELSE words[1] \o <<" ">> \o Join(Tail(words))

\* " ".join(word.capitalize() for word in s.split())
CapitalizeWords(chars) ==
    LET words == SplitFrom(chars, 1)
    IN  Join([k \in 1..Len(words) |-> Capitalize(words[k])])

\* query_full_recipe.py 48-52: the list `transformations`
Transformations == <<"replace", "capitalize">>

ApplyTransformation(func, chars) ==
    IF func = "replace" THEN ReplaceQuote(chars) ELSE CapitalizeWords(chars)

\* the subsets of the positions 1..n of a list in the order of
\* chain.from_iterable(combinations(elements, size) for size in range(n + 1))
RECURSIVE SubsetsInOrder(_)
SubsetsInOrder(subsets) ==
    IF subsets = {} THEN << >>
    ELSE LET Before(A, B) ==
                 \/ Cardinality(A) < Cardinality(B)
                 \/ /\ Cardinality(A) = Cardinality(B)
                    /\ A # B
                    /\ \E a \in A \ B : \A b \in B \ A : a < b
             head == CHOOSE A \in subsets : \A B \in subsets \ {A} : Before(A, B)
         IN  <<head>> \o SubsetsInOrder(subsets \ {head})

\* a faulty variant: the largest subsets come first
LargestFirst(elements) ==
    LET ascending == SubsetsInOrder(SUBSET (1..Len(elements)))
    IN  [k \in 1..Len(ascending) |-> ascending[Len(ascending) + 1 - k]]

\* query_full_recipe.py 17-23: all_subsets
all_subsets(elements) == SubsetsInOrder(SUBSET (1..Len(elements)))

\* iterating a set of functions: the order follows their hashes, two orders are kept
RECURSIVE IterateIndices(_, _)
IterateIndices(S, seed) ==
    IF S = {} THEN << >>
    ELSE LET x == CHOOSE y \in S : \A z \in S : IF seed = 0 THEN y <= z ELSE y >= z
         IN  <<x>> \o IterateIndices(S \ {x}, seed)

\* reduce(lambda name, func: func(name), transforms, element_name)
RECURSIVE Reduce(_, _)
Reduce(funcs, chars) ==
    IF funcs = << >> THEN chars
    ELSE Reduce(Tail(funcs), ApplyTransformation(funcs[1], chars))

\* query_full_recipe.py 46-57: name_variations
name_variations(element_name, seed) ==
    LET subsets == all_subsets(Transformations)
        chars == IF element_name \in DOMAIN Chars THEN Chars[element_name] ELSE << >>
    IN  [k \in 1..Len(subsets) |->
            LET order == IterateIndices(subsets[k], seed)
                transforms == [i \in 1..Len(order) |-> Transformations[order[i]]]
            IN  NameOf(Reduce(transforms, chars))]

Operation(a, b, r) == [first |-> a, second |-> b, result |-> r]

\* a faulty variant: every occurrence is kept
KeepAll(operations) == operations

\* a faulty variant: the last occurrence of every operation is kept
RECURSIVE KeepLast(_)
KeepLast(operations) ==
    IF operations = << >> THEN << >>
    ELSE LET rest == KeepLast(Tail(operations))
         IN  IF operations[1] \in Range(rest) THEN rest ELSE <<operations[1]>> \o rest

\* list(dict.fromkeys(operations)): the first occurrence of every operation, in order
RECURSIVE FromKeys(_)
FromKeys(operations) ==
    IF operations = << >> THEN << >>
    ELSE LET front == FromKeys(SubSeq(operations, 1, Len(operations) - 1))
             last == operations[Len(operations)]
         IN  IF last \in Range(front) THEN front ELSE Append(front, last)

\* query_full_recipe.py 59-70: _query_full_recipe; `raised` stands for the ValueError
RECURSIVE FullRecipe(_, _)
FullRecipe(ancestors_of, element) ==
    IF element \notin DOMAIN ancestors_of
    THEN [raised |-> TRUE, operations |-> << >>]
    ELSE IF ancestors_of[element] = None
    THEN [raised |-> FALSE, operations |-> << >>]
    ELSE LET a == ancestors_of[element][1]
             b == ancestors_of[element][2]
             of_first == FullRecipe(ancestors_of, a)
             of_second == FullRecipe(ancestors_of, b)
         IN  IF of_first.raised \/ of_second.raised
             THEN [raised |-> TRUE, operations |-> << >>]
             ELSE [raised |-> FALSE,
                   operations |->
                       Append(FromKeys(of_first.operations \o of_second.operations),
                              Operation(a, b, element))]

\* How many elements other than the root a stored paths file holds at most.
MaxMade == 4

\* the names of the made elements, in the order in which they were made
MadeNames == <<"Steam", "Mud", "Life", "Dust", "Plant">>

MadeBefore(n) == {"Water"} \cup {MadeNames[k] : k \in 1..n}

\* every table of ancestors in which the n-th made element has two ancestors among
\* the root and the elements made before it
RECURSIVE AncestorTables(_)
AncestorTables(n) ==
    IF n = 0 THEN {[e \in {"Water"} |-> None]}
    ELSE {Put(t, MadeNames[n], <<a, b>>) :
              t \in AncestorTables(n - 1), a \in MadeBefore(n - 1), b \in MadeBefore(n - 1)}

\* the names that are variations of each other
VariantNames == {"ma's pie", "ma(U+2019)s pie", "Ma's Pie", "Ma(U+2019)s Pie", "Usa"}

\* tables in which some of the variations are elements made of the root
VariantTables ==
    {[e \in {"Water"} \cup known |-> IF e = "Water" THEN None ELSE <<"Water", "Water">>] :
        known \in SUBSET VariantNames}

\* compute_paths.py 42: new_path = path of first | path of second | {result}
RECURSIVE PathIn(_, _)
PathIn(ancestors_of, element) ==
    IF ancestors_of[element] = None THEN {}
    ELSE PathIn(ancestors_of, ancestors_of[element][1])
            \cup PathIn(ancestors_of, ancestors_of[element][2]) \cup {element}

\* what load_elements_paths returns: the saved ElementPath of every element
StoredElementsPaths ==
    {[e \in DOMAIN t |-> [ancestors |-> t[e], path |-> PathIn(t, e)]] :
        t \in VariantTables \cup UNION {AncestorTables(n) : n \in 0..MaxMade}}

\* the names a full recipe is asked for
QueriedNames == DOMAIN Chars

QueryInit ==
    /\ NoCrawler
    /\ recipes = << >>
    /\ recipes_as_tuples = << >>
    /\ elements_paths \in StoredElementsPaths
    /\ iteration = 0
    /\ pc = "input"
    /\ prev_paths = EmptyDict
    /\ prev_ancestors = EmptyDict
    /\ prev_kind = "none"
    /\ appended = 0

\* query_full_recipe.py 27-28: FullRecipeQuery.__init__
ConstructQuery ==
    /\ element_ancestors = NoQuery
    /\ element_ancestors' = AncestorsOf(elements_paths)
    /\ UNCHANGED <<solver_vars, repo_vars, crawler_vars, strategy_vars, thread_vars, started,
                   persistence_vars, query_result, mutex_vars>>

\* the first variation that is a known element, or None
FirstKnown(variations, ancestors_of) ==
    IF \E k \in 1..Len(variations) : variations[k] \in DOMAIN ancestors_of
    THEN variations[CHOOSE k \in 1..Len(variations) :
                        /\ variations[k] \in DOMAIN ancestors_of
                        /\ \A j \in 1..(k - 1) : variations[j] \notin DOMAIN ancestors_of]
    ELSE NoElement

\* the outcome of a call: None, a list of operations or an exception
Outcome(call, element, element_name, full_recipe) ==
    [call |-> call, element |-> element, element_name |-> element_name,
     kind |-> IF element_name = NoElement THEN "None"
              ELSE IF full_recipe.raised THEN "ValueError" ELSE "returned",
     operations |-> full_recipe.operations]

\* query_full_recipe.py 30-44: FullRecipeQuery.query_full_recipe(element)
QueryFullRecipe(element, seed) ==
    /\ element_ancestors # NoQuery
    /\ query_result = NoQuery
    /\ \E variations \in {name_variations(element, seed)} :
       \E element_name \in {FirstKnown(variations, element_ancestors)} :
          query_result' =
              IF element_name = NoElement
              THEN Outcome("query_full_recipe", element, NoElement,
                           [raised |-> FALSE, operations |-> << >>])
              ELSE Outcome("query_full_recipe", element, element_name,
                           FullRecipe(element_ancestors, element_name))
    /\ UNCHANGED <<solver_vars, repo_vars, crawler_vars, strategy_vars, thread_vars, started,
                   persistence_vars, element_ancestors, mutex_vars>>

\* query_full_recipe.py 59-70: FullRecipeQuery._query_full_recipe(element), and the
\* function query_full_recipe(element) of src/query_full_recipe.py 24-35
QueryDirectly(element) ==
    /\ element_ancestors # NoQuery
    /\ query_result = NoQuery
    /\ query_result' = Outcome("_query_full_recipe", element, element,
                               FullRecipe(element_ancestors, element))
    /\ UNCHANGED <<solver_vars, repo_vars, crawler_vars, strategy_vars, thread_vars, started,
                   persistence_vars, element_ancestors, mutex_vars>>

\* query_full_recipe.py 97-107: the result is printed and the next name is read
NextInput ==
    /\ query_result # NoQuery
    /\ query_result' = NoQuery
    /\ UNCHANGED <<solver_vars, repo_vars, crawler_vars, strategy_vars, thread_vars, started,
                   persistence_vars, element_ancestors, mutex_vars>>

QueryNext ==
    \/ ConstructQuery
    \/ NextInput
    \/ \E element \in QueriedNames, seed \in HashSeeds : QueryFullRecipe(element, seed)
    \/ \E element \in QueriedNames : QueryDirectly(element)

QuerySpec == QueryInit /\ [][QueryNext]_vars

----------------------------------------------------------------------------
\* Properties of FullRecipeQuery

\* a call has returned a list of operations
Returned == query_result.kind = "returned"

IsRoot(element) == element \in DOMAIN element_ancestors /\ element_ancestors[element] = None

\* C24: in a list returned by _query_full_recipe each input of an operation is a root
\* element or the result of an operation earlier in the list, and no operation is in
\* the list twice.
C24_OperationsInOrder ==
    Returned =>
        LET ops == query_result.operations
        IN  /\ \A i \in 1..Len(ops) : \A input \in {ops[i].first, ops[i].second} :
                 IsRoot(input) \/ \E j \in 1..(i - 1) : ops[j].result = input
            /\ \A i, j \in 1..Len(ops) : i # j => ops[i] # ops[j]

\* a returned list in which the result of one operation is an input of two later ones
C24_Witness ==
    /\ Returned
    /\ query_result.call = "_query_full_recipe"
    /\ LET ops == query_result.operations
       IN  \E i, j, k \in 1..Len(ops) :
              /\ i < j /\ j < k
              /\ ops[i].result \in {ops[j].first, ops[j].second}
              /\ ops[i].result \in {ops[k].first, ops[k].second}
              /\ ops[j].result \in {ops[k].first, ops[k].second}

\* the operations of the returned list that produce the element
ProducedAt(element) ==
    {i \in 1..Len(query_result.operations) : query_result.operations[i].result = element}

\* the operations of the returned list that have the element as an input
UsedAt(element) ==
    {k \in 1..Len(query_result.operations) :
        element \in {query_result.operations[k].first, query_result.operations[k].second}}

\* the made elements in the ancestry of both ancestors of the element
CommonAncestors(element) ==
    IF IsRoot(element) THEN {}
    ELSE PathIn(element_ancestors, element_ancestors[element][1])
            \cap PathIn(element_ancestors, element_ancestors[element][2])

\* C25: in the list returned for an element whose two ancestors have a made element in
\* the ancestry of both, the operation producing that element occurs exactly once and
\* before every operation that uses it; for a root element the list is empty.
C25_CommonAncestorOnce ==
    Returned =>
        /\ IsRoot(query_result.element_name) => query_result.operations = << >>
        /\ \A common \in CommonAncestors(query_result.element_name) :
              /\ Cardinality(ProducedAt(common)) = 1
              /\ \A i \in ProducedAt(common) : \A k \in UsedAt(common) : i < k

\* a list returned for an element with two different ancestors, both made of a third
\* made element
C25_Witness ==
    /\ Returned
    /\ ~IsRoot(query_result.element_name)
    /\ LET a == element_ancestors[query_result.element_name][1]
           b == element_ancestors[query_result.element_name][2]
       IN  /\ a # b
           /\ \E common \in CommonAncestors(query_result.element_name) \ {a, b} :
                 /\ common \in {element_ancestors[a][1], element_ancestors[a][2]}
                 /\ common \in {element_ancestors[b][1], element_ancestors[b][2]}

\* the variations of the queried name that are known elements
KnownVariations ==
    IF query_result.kind \in {"no query"} THEN {}
    ELSE Range(name_variations(query_result.element, 0)) \cap DOMAIN element_ancestors

\* C26: when the queried name is not a known element, the result of query_full_recipe
\* holds the recipe of every variation of the name that is a known element.
C26_EveryKnownVariation ==
    (/\ query_result.kind # "no query"
     /\ query_result.call = "query_full_recipe"
     /\ query_result.element \notin DOMAIN element_ancestors)
        => \A name \in KnownVariations :
              /\ Returned
              /\ Range(FullRecipe(element_ancestors, name).operations)
                    \subseteq Range(query_result.operations)

\* C27: query_full_recipe raises nothing; it returns None when neither the queried name
\* nor a variation of it is a known element, and the recipe of the queried name itself
\* when that name is a known element.
C27_UnknownIsNone ==
    (query_result.kind # "no query" /\ query_result.call = "query_full_recipe") =>
        /\ query_result.kind # "ValueError"
        /\ KnownVariations = {} => query_result.kind = "None"
        /\ query_result.element \in DOMAIN element_ancestors =>
              /\ Returned
              /\ query_result.element_name = query_result.element
              /\ query_result.operations
                    = FullRecipe(element_ancestors, query_result.element).operations

\* the queried name and another variation of it are both known elements, and a list
\* was returned
C27_Witness ==
    /\ Returned
    /\ query_result.call = "query_full_recipe"
    /\ query_result.element \in DOMAIN element_ancestors
    /\ KnownVariations \ {query_result.element} # {}
    /\ query_result.operations # << >>

----------------------------------------------------------------------------
\* Properties of the cursor of ExhaustiveCrawler

\* C28: between the calls of sample_elements and process_recipe, every combination that
\* precedes next_craft_combination in the enumeration order denotes, through the
\* current sorted_elements, a pair that is committed in self.recipes; insertions into
\* sorted_elements and re-sorts keep this.
C28_BelowCursorCommitted ==
    (/\ crawler = "ExhaustiveCrawler"
     /\ \A t \in Threads : at[t] \notin {"process_recipe", "add_recipe"}) =>
        \A index \in IndicesBefore(next_craft_combination) :
            InRange(sorted_elements, index) =>
                PairAt(sorted_elements, index) \in recipes_true

\* the thread's step is a call of sample_elements
CallsSampleElements(t) == at[t] = "sample" /\ at'[t] # "sample"

\* C29: every call of ExhaustiveCrawler.sample_elements returns a pair of known
\* elements that was not a key of self.recipes when the call started, also when every
\* combination from the cursor on is claimed or committed.
C29_SampleReturnsUnclaimedPair ==
    [][\A t \in Threads :
          (crawler = "ExhaustiveCrawler" /\ CallsSampleElements(t)) =>
              /\ ReturnsPair(t)
              /\ {first'[t], second'[t]} \subseteq Range(sorted_elements)
              /\ {first'[t], second'[t]} \notin self_recipes]_vars

\* the combinations the cursor moves past in this step
PassedInStep == IndicesBefore(next_craft_combination') \ IndicesBefore(next_craft_combination)

\* C30: update_next_craft_combiantion moves the cursor forward only, and only past
\* combinations whose pair is committed (True) in self.recipes: never past a pair that
\* is unknown or claimed and pending.
C30_CursorOnlyPastCommitted ==
    [][(crawler = "ExhaustiveCrawler" /\ next_craft_combination' # next_craft_combination) =>
          /\ next_craft_combination \in IndicesBefore(next_craft_combination')
          /\ \A index \in PassedInStep :
                /\ InRange(sorted_elements, index)
                /\ PairAt(sorted_elements, index) \in recipes_true']_vars

\* a thread has committed its pair, the cursor has moved past that pair and stands on
\* a pair that another thread has claimed and not yet committed
C30_Witness ==
    /\ crawler = "ExhaustiveCrawler"
    /\ InRange(sorted_elements, next_craft_combination)
    /\ PairAt(sorted_elements, next_craft_combination) \in self_recipes \ recipes_true
    /\ \E t \in Threads :
          /\ at[t] = "add_recipe"
          /\ \E index \in IndicesBefore(next_craft_combination) :
                PairAt(sorted_elements, index) = {first[t], second[t]}
          /\ \E other \in Threads \ {t} :
                /\ at[other] = "request"
                /\ {first[other], second[other]} = PairAt(sorted_elements, next_craft_combination)

----------------------------------------------------------------------------
\* increment_dual_index_tuple applied again and again (exhaustive_by_depth.py 124-129)

\* The largest row the enumeration is followed to.
MaxRow == 13

\* no crawler runs; the index tuple starts at (0, 0)
IndexInit ==
    /\ NoCrawler
    /\ recipes = << >>
    /\ recipes_as_tuples = << >>
    /\ elements_paths = EmptyDict
    /\ iteration = 0
    /\ pc = "input"
    /\ prev_paths = EmptyDict
    /\ prev_ancestors = EmptyDict
    /\ prev_kind = "none"
    /\ appended = 0

\* dual_index_tuple = increment_dual_index_tuple(dual_index_tuple)
IncrementIndex ==
    /\ crawler = "none"
    /\ next_craft_combination[1] <= MaxRow
    /\ next_craft_combination' = increment_dual_index_tuple(next_craft_combination)
    /\ UNCHANGED <<solver_vars, repo_vars, crawler_vars, recipes_true,
                   next_craft_combination_txt, elements_to_target_similarity, thread_vars,
                   started, persistence_vars, query_vars, mutex_vars>>

IndexNext == IncrementIndex

IndexSpec == IndexInit /\ [][IndexNext]_vars

\* C31: from (0, 0) on, increment_dual_index_tuple yields every pair (i, j) with
\* 0 <= j <= i exactly once, rows ascending and j ascending from 0 to i within a row:
\* each step adds exactly the current pair to the pairs below the cursor, and every
\* value reached has 0 <= j <= i.
C31_EnumeratesLowerTriangle ==
    [][/\ next_craft_combination[2] >= 0
       /\ next_craft_combination[2] <= next_craft_combination[1]
       /\ next_craft_combination'[2] >= 0
       /\ next_craft_combination'[2] <= next_craft_combination'[1]
       /\ IndicesBefore(next_craft_combination')
             = IndicesBefore(next_craft_combination) \cup {next_craft_combination}]_vars

\* the enumeration has gone through the rows 0, 1, 2 and is inside row 3
C31_Witness ==
    /\ crawler = "none"
    /\ next_craft_combination = <<3, 2>>

----------------------------------------------------------------------------
\* Properties of sorted_elements

\* the list is in ascending order of the key
AscendingBy(seq, key) == \A k \in 1..(Len(seq) - 1) : key[seq[k]] <= key[seq[k + 1]]

\* C32: whenever no worker holds sorted_elements_lock, ExhaustiveCrawler.sorted_elements
\* is sorted by (depth, element name): after the load, after every insertion and after
\* every re-sort caused by a shortcut.
C32_SortedByDepthThenName ==
    crawler = "ExhaustiveCrawler" =>
        AscendingBy(sorted_elements, DepthThenName(elements_to_path))

\* C33: under any interleaving of the workers of an ExhaustiveCrawler, whenever no
\* worker holds sorted_elements_lock the list sorted_elements is in ascending order of
\* the depths len(elements_to_path[e]).
C33_SortedByDepth ==
    crawler = "ExhaustiveCrawler" =>
        AscendingBy(sorted_elements, DepthOnly(elements_to_path))

----------------------------------------------------------------------------
\* ProbibalisticCrawler on a data directory whose deepest element can be shortened

\* A data directory in which Mud is stored with three crafts, after Life with two.
DeepData ==
    [elements |-> {"Water", "Fire", "Steam", "Life", "Mud"},
     recipes |-> << Recipe("Water", "Fire", "Steam"), Recipe("Steam", "Steam", "Life"),
                    Recipe("Life", "Life", "Mud"),
                    Recipe("Fire", "Fire", Nothing), Recipe("Fire", "Steam", Nothing),
                    Recipe("Fire", "Life", Nothing), Recipe("Fire", "Mud", Nothing),
                    Recipe("Water", "Life", Nothing), Recipe("Water", "Mud", Nothing),
                    Recipe("Steam", "Life", Nothing), Recipe("Steam", "Mud", Nothing),
                    Recipe("Life", "Mud", Nothing), Recipe("Mud", "Mud", Nothing) >>,
     paths |-> [e \in {"Water", "Fire", "Steam", "Life", "Mud"} |->
                   CASE e = "Steam" -> {"Steam"}
                     [] e = "Life" -> {"Steam", "Life"}
                     [] e = "Mud" -> {"Steam", "Life", "Mud"}
                     [] OTHER -> {}]]

\* ProbibalisticCrawler.__init__ on a fresh data directory or on DeepData
DeepInit ==
    /\ NoRepositoryUse
    /\ recipes = << >>
    /\ recipes_as_tuples = << >>
    /\ elements_paths = EmptyDict
    /\ iteration = 0
    /\ pc = "input"
    /\ prev_paths = EmptyDict
    /\ prev_ancestors = EmptyDict
    /\ prev_kind = "none"
    /\ appended = 0
    /\ crawler = "ProbibalisticCrawler"
    /\ \E data \in {FreshData, DeepData}, seed \in HashSeeds :
          /\ repo_elements = Iterate(data.elements, 0)
          /\ repo_recipes = data.recipes
          /\ self_recipes = UsedPairs(data.recipes)
          /\ elements_to_path = data.paths
          /\ sorted_elements = SortByDepth(Iterate(data.elements, seed), data.paths)
    /\ elements_list = << >>
    /\ elements_set = {}
    /\ recipes_true = {}
    /\ next_craft_combination = <<0, 0>>
    /\ next_craft_combination_txt = None
    /\ elements_to_target_similarity = EmptyDict
    /\ at = [t \in Threads |-> "sample"]
    /\ first = [t \in Threads |-> NoElement]
    /\ second = [t \in Threads |-> NoElement]
    /\ result_element = [t \in Threads |-> NoElement]
    /\ tries = [t \in Threads |-> 0]
    /\ new_element_path = [t \in Threads |-> {}]
    /\ old_length = [t \in Threads |-> 0]
    /\ started = 0

DeepNext == \E t \in Threads : ProbibalisticCrawl(t)

DeepSpec == DeepInit /\ [][DeepNext]_vars

\* the thread's step is a call of the sampling function of a ProbibalisticCrawler
SamplesNow(t) ==
    /\ crawler = "ProbibalisticCrawler"
    /\ at[t] = "sample"
    /\ at'[t] # "sample"

\* C34: in ProbibalisticCrawler a change of a stored path and the matching update of
\* sorted_elements are one critical section: a worker that samples finds
\* sorted_elements in ascending order of the current depths in elements_to_path.
C34_SamplerSeesSortedList ==
    [][\A t \in Threads :
          SamplesNow(t) => AscendingBy(sorted_elements, DepthOnly(elements_to_path))]_vars

----------------------------------------------------------------------------
\* The threading.Lock objects of the crawlers.  Each thread runs a sequence of
\* statements: `with a, b: body` acquires a, then b, runs the body and releases b,
\* then a.  A thread whose current statement reads or writes a structure is
\* performing that access.

\* no thread has acquired the lock
NoThread == "no thread"

\* the thread started by TargetedCrawler.crawl_multithreaded before the workers
Reloader == "reloader"

LockUsers(cls) == IF cls = "TargetedCrawler" THEN Threads \cup {Reloader} ELSE Threads

\* the order in which the class lists its locks
InitLocks(cls) ==
    CASE cls = "ExhaustiveCrawler" ->
             << "next_craft_combination_lock", "elements_repository_lock",
                "recipes_repository_lock", "elements_to_path_lock", "sorted_elements_lock",
                "recipes_lock" >>
      [] cls = "ProbibalisticCrawler" ->
             << "elements_repository_lock", "recipes_repository_lock",
                "elements_to_path_lock", "sorted_elements_lock", "recipes_lock" >>
      [] cls = "TargetedCrawler" ->
             << "elements_to_target_similarity_lock", "elements_repository_lock",
                "recipes_repository_lock", "forbidden_pattern_lock", "sorted_elements_lock",
                "recipes_lock" >>

\* the lock that is named after the structure
LockOf(structure) ==
    CASE structure = "sorted_elements" -> "sorted_elements_lock"
      [] structure = "recipes" -> "recipes_lock"
      [] structure = "elements_to_path" -> "elements_to_path_lock"
      [] structure = "next_craft_combination" -> "next_craft_combination_lock"
      [] structure = "elements_to_target_similarity" -> "elements_to_target_similarity_lock"
      [] structure = "forbidden_pattern" -> "forbidden_pattern_lock"
      [] structure = "repository.elements" -> "elements_repository_lock"
      [] structure = "repository.recipes" -> "recipes_repository_lock"

Acquire(lock) == [kind |-> "acquire", on |-> lock]
Release(lock) == [kind |-> "release", on |-> lock]
Read(structure) == [kind |-> "read", on |-> structure]
Write(structure) == [kind |-> "write", on |-> structure]
CallCraftItems == [kind |-> "craft_items", on |-> "network"]

\* a variant that leaves the block without releasing
WithoutRelease(locks, body) ==
    [k \in 1..Len(locks) |-> Acquire(locks[k])] \o body

\* `with locks[1], ..., locks[n]: body`
With(locks, body) ==
    [k \in 1..Len(locks) |-> Acquire(locks[k])] \o body
        \o [k \in 1..Len(locks) |-> Release(locks[Len(locks) + 1 - k])]

\* ExhaustiveCrawler: the statements of each operation of Crawler.crawl
ExhaustiveStatements(operation) ==
    CASE operation = "sample_elements" ->
             With(<< "next_craft_combination_lock", "sorted_elements_lock", "recipes_lock" >>,
                  << Read("next_craft_combination"), Read("sorted_elements"),
                     Read("recipes"), Write("recipes") >>)
      [] operation = "craft_items" -> << CallCraftItems >>
      [] operation = "process_recipe" ->
             With(<< "next_craft_combination_lock", "elements_to_path_lock",
                     "sorted_elements_lock", "recipes_lock" >>,
                  << Write("recipes"), Read("sorted_elements"), Write("next_craft_combination"),
                     Read("elements_to_path") >>)
             \o With(<< "recipes_repository_lock" >>, << Write("repository.recipes") >>)
      [] operation = "element_already_known" ->
             With(<< "elements_to_path_lock" >>, << Read("elements_to_path") >>)
      [] operation = "process_known_element" ->
             With(<< "elements_to_path_lock", "sorted_elements_lock" >>,
                  << Read("elements_to_path") >>)
      [] operation = "process_known_element (shorter)" ->
             With(<< "elements_to_path_lock", "sorted_elements_lock" >>,
                  << Read("elements_to_path"), Write("elements_to_path"),
                     Write("sorted_elements") >>)
      [] operation = "process_new_element" ->
             With(<< "elements_repository_lock" >>, << Write("repository.elements") >>)
             \o With(<< "elements_to_path_lock", "sorted_elements_lock" >>,
                     << Write("elements_to_path"), Write("sorted_elements") >>)

\* ProbibalisticCrawler: the statements of each part of the loop body of crawl
ProbibalisticStatements(operation) ==
    CASE operation = "_low_depth_sampling_strategy" ->
             With(<< "elements_to_path_lock", "sorted_elements_lock", "recipes_lock" >>,
                  << Read("sorted_elements"), Read("elements_to_path"), Read("recipes") >>)
      [] operation = "_random_sampling_strategy" ->
             With(<< "sorted_elements_lock", "recipes_lock" >>,
                  << Read("sorted_elements"), Read("recipes") >>)
      [] operation = "craft_items" -> << CallCraftItems >>
      [] operation = "add recipe" ->
             With(<< "recipes_lock" >>, << Write("recipes") >>)
             \o With(<< "recipes_repository_lock" >>, << Write("repository.recipes") >>)
      [] operation = "new_element_path" ->
             With(<< "elements_to_path_lock" >>, << Read("elements_to_path") >>)
             \o << Read("elements_to_path") >>
      [] operation = "old_length" ->
             With(<< "elements_to_path_lock" >>, << Read("elements_to_path") >>)
      [] operation = "shortcut" ->
             With(<< "elements_to_path_lock" >>, << Write("elements_to_path") >>)
             \o With(<< "sorted_elements_lock" >>,
                     << Read("elements_to_path"), Write("sorted_elements") >>)
      [] operation = "new element" ->
             With(<< "elements_to_path_lock" >>, << Write("elements_to_path") >>)
             \o With(<< "elements_repository_lock" >>, << Write("repository.elements") >>)
             \o With(<< "elements_to_path_lock", "sorted_elements_lock" >>,
                     << Read("elements_to_path"), Write("sorted_elements") >>)

\* TargetedCrawler: the statements of each operation of Crawler.crawl
TargetedStatements(operation) ==
    CASE operation = "sample_elements" ->
             << Read("sorted_elements"), Read("recipes"),
                Read("elements_to_target_similarity") >>
      [] operation = "craft_items" -> << CallCraftItems >>
      [] operation = "process_recipe" ->
             With(<< "recipes_lock" >>, << Write("recipes") >>)
             \o With(<< "recipes_repository_lock" >>, << Write("repository.recipes") >>)
      [] operation = "element_already_known" ->
             << Read("elements_to_target_similarity") >>
      [] operation = "process_new_element" ->
             With(<< "elements_repository_lock" >>, << Write("repository.elements") >>)
             \o With(<< "elements_to_target_similarity_lock", "forbidden_pattern_lock",
                        "sorted_elements_lock" >>,
                     << Write("elements_to_target_similarity"), Read("forbidden_pattern"),
                        Write("sorted_elements") >>)

\* a variant that takes sorted_elements_lock before forbidden_pattern_lock
ReloaderSortedFirst(operation) ==
    CASE operation = "load_forbidden_pattern" -> << Read("forbidden_pattern") >>
      [] operation = "update" ->
             With(<< "sorted_elements_lock", "forbidden_pattern_lock" >>,
                  << Write("forbidden_pattern"), Write("sorted_elements") >>)

\* TargetedCrawler.periodically_update_forbidden_substrings
ReloaderStatements(operation) ==
    CASE operation = "load_forbidden_pattern" -> << Read("forbidden_pattern") >>
      [] operation = "update" ->
             With(<< "forbidden_pattern_lock", "sorted_elements_lock" >>,
                  << Write("forbidden_pattern"), Write("sorted_elements") >>)

Statements(cls, t, operation) ==
    CASE t = Reloader -> ReloaderStatements(operation)
      [] cls = "ExhaustiveCrawler" -> ExhaustiveStatements(operation)
      [] cls = "ProbibalisticCrawler" -> ProbibalisticStatements(operation)
      [] cls = "TargetedCrawler" -> TargetedStatements(operation)

EntryOperations ==
    {"load_forbidden_pattern", "_low_depth_sampling_strategy", "_random_sampling_strategy",
     "sample_elements"}

\* the operation a thread starts with, and starts each iteration of its loop with
FirstOperations(cls, t) ==
    CASE t = Reloader -> {"load_forbidden_pattern"}
      [] cls = "ProbibalisticCrawler" ->
             {"_low_depth_sampling_strategy", "_random_sampling_strategy"}
      [] OTHER -> {"sample_elements"}

\* the operations that can follow an operation in the loop of the thread
NextOperations(cls, t, operation) ==
    CASE t = Reloader ->
             {"load_forbidden_pattern", "update"}
      [] cls = "ProbibalisticCrawler" ->
             CASE operation \in {"_low_depth_sampling_strategy", "_random_sampling_strategy"} ->
                      {"craft_items"}
               [] operation = "craft_items" -> {"add recipe"} \cup FirstOperations(cls, t)
               [] operation = "add recipe" -> {"new_element_path"} \cup FirstOperations(cls, t)
               [] operation = "new_element_path" -> {"old_length", "new element"}
               [] operation = "old_length" -> {"shortcut"} \cup FirstOperations(cls, t)
               [] OTHER -> FirstOperations(cls, t)
      [] OTHER ->
             CASE operation = "sample_elements" -> {"craft_items"}
               [] operation = "craft_items" -> {"craft_items", "process_recipe"} \cup FirstOperations(cls, t)
               [] operation = "process_recipe" -> {"element_already_known"} \cup FirstOperations(cls, t)
               [] operation = "element_already_known" ->
                      IF cls = "ExhaustiveCrawler"
                      THEN {"process_known_element", "process_known_element (shorter)",
                            "process_new_element"}
                      ELSE {"process_new_element"} \cup FirstOperations(cls, t)
               [] OTHER -> FirstOperations(cls, t)

\* the statement the thread is at
Current(t) == Statements(crawler, t, running[t].operation)[running[t].k]

Holds(t) == {lock \in DOMAIN owner : owner[lock] = t}

\* a crawler after crawl_multithreaded has created the locks and started the threads
MutexInit ==
    /\ recipes = << >>
    /\ recipes_as_tuples = << >>
    /\ elements_paths = EmptyDict
    /\ iteration = 0
    /\ pc = "input"
    /\ prev_paths = EmptyDict
    /\ prev_ancestors = EmptyDict
    /\ prev_kind = "none"
    /\ appended = 0
    /\ repository = "none"
    /\ load_result = NotCalled
    /\ lock_holder = NoHolder
    /\ proc_at = EmptyDict
    /\ lock_acquired = EmptyDict
    /\ data_loaded = EmptyDict
    /\ element_ancestors = NoQuery
    /\ query_result = NoQuery
    /\ repo_elements = << >>
    /\ repo_recipes = << >>
    /\ crawler \in {"ExhaustiveCrawler", "ProbibalisticCrawler", "TargetedCrawler"}
    /\ self_recipes = {}
    /\ elements_set = {}
    /\ elements_list = << >>
    /\ elements_to_path = EmptyDict
    /\ sorted_elements = << >>
    /\ recipes_true = {}
    /\ next_craft_combination = <<0, 0>>
    /\ next_craft_combination_txt = None
    /\ elements_to_target_similarity = EmptyDict
    /\ at = [t \in Threads |-> "sample"]
    /\ first = [t \in Threads |-> NoElement]
    /\ second = [t \in Threads |-> NoElement]
    /\ result_element = [t \in Threads |-> NoElement]
    /\ tries = [t \in Threads |-> 0]
    /\ new_element_path = [t \in Threads |-> {}]
    /\ old_length = [t \in Threads |-> 0]
    /\ started = 0
    /\ owner = [lock \in Range(InitLocks(crawler)) |-> NoThread]
    /\ running \in {r \in [LockUsers(crawler) ->
                                 {[operation |-> o, k |-> 1] : o \in EntryOperations}] :
                         \A t \in LockUsers(crawler) :
                             r[t].operation \in FirstOperations(crawler, t)}

\* the thread moves to its next statement; after the last statement of an operation
\* it enters one of the operations that can follow
Advance(t) ==
    IF running[t].k < Len(Statements(crawler, t, running[t].operation))
    THEN running' = [running EXCEPT ![t].k = running[t].k + 1]
    ELSE \E next \in NextOperations(crawler, t, running[t].operation) :
             running' = [running EXCEPT ![t] = [operation |-> next, k |-> 1]]

\* threading.Lock.acquire: blocks while the lock is held, by any thread
AcquireLock(t) ==
    /\ Current(t).kind = "acquire"
    /\ owner[Current(t).on] = NoThread
    /\ owner' = [owner EXCEPT ![Current(t).on] = t]
    /\ Advance(t)
    /\ UNCHANGED <<solver_vars, repo_vars, crawler_vars, strategy_vars, thread_vars, started,
                   persistence_vars, query_vars>>

\* threading.Lock.release at the end of the `with` block
ReleaseLock(t) ==
    /\ Current(t).kind = "release"
    /\ owner' = [owner EXCEPT ![Current(t).on] = NoThread]
    /\ Advance(t)
    /\ UNCHANGED <<solver_vars, repo_vars, crawler_vars, strategy_vars, thread_vars, started,
                   persistence_vars, query_vars>>

\* the thread completes a read or a write of a shared structure
AccessStructure(t) ==
    /\ Current(t).kind \in {"read", "write"}
    /\ Advance(t)
    /\ UNCHANGED <<solver_vars, repo_vars, crawler_vars, strategy_vars, thread_vars, started,
                   persistence_vars, query_vars, owner>>

\* craft_items returns or raises
CraftItemsReturns(t) ==
    /\ Current(t).kind = "craft_items"
    /\ Advance(t)
    /\ UNCHANGED <<solver_vars, repo_vars, crawler_vars, strategy_vars, thread_vars, started,
                   persistence_vars, query_vars, owner>>

MutexNext ==
    \E t \in LockUsers(crawler) :
        \/ AcquireLock(t)
        \/ ReleaseLock(t)
        \/ AccessStructure(t)
        \/ CraftItemsReturns(t)

MutexSpec == MutexInit /\ [][MutexNext]_vars

----------------------------------------------------------------------------
\* Properties of the locks

\* the thread is performing a read or a write of the structure
Performing(t, structure) ==
    /\ Current(t).kind \in {"read", "write"}
    /\ Current(t).on = structure

\* a thread is reading the structure while another thread is writing it
ReadDuringWrite(structure) ==
    \E t \in DOMAIN running, u \in DOMAIN running :
        /\ t # u
        /\ Current(t) = Read(structure)
        /\ Current(u) = Write(structure)

\* C35: in TargetedCrawler every read and write of sorted_elements and of the recipe
\* set, by a worker or by the pattern-reload thread, is performed while the accessing
\* thread holds the lock of that structure, so that no thread reads sorted_elements
\* while another thread writes it.
C35_AccessUnderLock ==
    crawler = "TargetedCrawler" =>
        /\ \A t \in DOMAIN running, structure \in {"sorted_elements", "recipes"} :
              Performing(t, structure) => owner[LockOf(structure)] = t
        /\ ~ ReadDuringWrite("sorted_elements")

\* C36: a thread that is in the call of craft_items holds no lock.
C36_NoLockWhileRequesting ==
    \A t \in DOMAIN running : Current(t).kind = "craft_items" => Holds(t) = {}

\* a thread is in the call of craft_items right after a sampling that took locks, and
\* another thread holds a lock
C36_Witness ==
    /\ crawler = "ExhaustiveCrawler"
    /\ \E t \in DOMAIN running :
          /\ Current(t).kind = "craft_items"
          /\ \E u \in DOMAIN running \ {t} : "sorted_elements_lock" \in Holds(u)

\* the place of the lock in the list of init_locks
Position(lock) == CHOOSE k \in 1..Len(InitLocks(crawler)) : InitLocks(crawler)[k] = lock

\* the thread is blocked in acquire
Waits(t) ==
    /\ Current(t).kind = "acquire"
    /\ owner[Current(t).on] # NoThread

\* C37: a thread acquires a lock only while every lock it holds stands before it in the
\* order of init_locks, and no set of threads is reached in which every thread waits
\* for a lock held by a thread of the set.
C37_OrderedAndDeadlockFree ==
    /\ \A t \in DOMAIN running :
          Current(t).kind = "acquire" =>
              \A held \in Holds(t) : Position(held) < Position(Current(t).on)
    /\ \A S \in SUBSET (DOMAIN running) :
          S # {} => ~ \A t \in S : Waits(t) /\ owner[Current(t).on] \in S

\* a worker holds elements_to_target_similarity_lock and waits for
\* forbidden_pattern_lock, which the pattern-reload thread holds together with
\* sorted_elements_lock
C37_Witness ==
    /\ crawler = "TargetedCrawler"
    /\ Holds(Reloader) = {"forbidden_pattern_lock", "sorted_elements_lock"}
    /\ \E t \in Threads :
          /\ Holds(t) = {"elements_to_target_similarity_lock"}
          /\ Waits(t)

----------------------------------------------------------------------------
\* Claims of pairs that are not followed by a commit

\* the unordered pairs of the elements the crawled data directories hold or can get
ClaimablePairs ==
    {{a, b} : a, b \in {"Water", "Fire", "Steam", "Mud"}}

\* the pair is a key of self.recipes with the value False
ClaimedPending(pair) == pair \in self_recipes \ recipes_true

\* no thread is working on the pending pair: the worker that claimed it has given it up
Abandoned(pair) ==
    /\ ClaimedPending(pair)
    /\ \A t \in Threads : ~(InFlight(t) /\ {first[t], second[t]} = pair)

----------------------------------------------------------------------------
\* The mapping compute_elements_paths returns, read by FullRecipeQuery

\* the elements met by following ancestors from the elements of S, at most n times
RECURSIVE AncestorsWithin(_, _, _)
AncestorsWithin(ancestors_of, S, n) ==
    IF n = 0 THEN S
    ELSE AncestorsWithin(
             ancestors_of,
             S \cup {ancestors_of[e][i] :
                        e \in {x \in S \cap DOMAIN ancestors_of : ancestors_of[x] # None},
                        i \in 1..2},
             n - 1)

\* the ancestors of the element, and theirs, and so on
ProperAncestors(ancestors_of, element) ==
    IF ancestors_of[element] = None THEN {}
    ELSE AncestorsWithin(ancestors_of,
                         {ancestors_of[element][1], ancestors_of[element][2]},
                         Cardinality(DOMAIN ancestors_of))

Acyclic(ancestors_of) ==
    \A e \in DOMAIN ancestors_of :
        /\ e \notin ProperAncestors(ancestors_of, e)
        /\ ProperAncestors(ancestors_of, e) \subseteq DOMAIN ancestors_of

\* C39: in the mapping compute_elements_paths returns no element is among its own
\* ancestors and every ancestor is an element of the mapping, so _query_full_recipe
\* returns, without an error, for every element of the mapping.
C39_AncestorsAcyclic ==
    pc = "done" =>
        /\ Acyclic(AncestorsOf(elements_paths))
        /\ \A e \in DOMAIN elements_paths :
              ~ FullRecipe(AncestorsOf(elements_paths), e).raised

\* a returned mapping in which an element took new ancestors after its first ones
C39_Witness ==
    /\ pc = "done"
    /\ recipes = ShortcutRecipes
    /\ elements_paths["Life"].ancestors = <<"Mud", "Mud">>
    /\ Acyclic(AncestorsOf(elements_paths))

\* the results of the operations
Results(operations) == {operations[k].result : k \in 1..Len(operations)}

\* C40: for every element of the mapping compute_elements_paths returns, the list
\* _query_full_recipe builds from the ancestors of the mapping has as many operations as
\* the stored path has members, and the results of the operations are the members of
\* the path.
C40_RecipeMatchesPath ==
    (pc = "done" /\ Acyclic(AncestorsOf(elements_paths))) =>
        \A e \in DOMAIN elements_paths :
            LET full == FullRecipe(AncestorsOf(elements_paths), e)
            IN  /\ Len(full.operations) = Cardinality(elements_paths[e].path)
                /\ Results(full.operations) = elements_paths[e].path

====
